---- MODULE Spec2Model ----
(***************************************************************************)
(* Model of workflow-world-cloudflare: the per-run coordinator             *)
(* (WorkflowRunObject), the idempotent queue dispatcher (createQueue /     *)
(* createQueueConsumer) and the keyset pagination of the list operations.  *)
(* Each subsystem has its own specification over the shared variables.     *)
(***************************************************************************)
EXTENDS Integers, Sequences, FiniteSets, TLC

(***************************************************************************)
(* Bounds of the model.                                                    *)
(***************************************************************************)
\* number of requests that may be in progress on one coordinator at once
MaxInFlight == 2

\* number of queue() calls that may be in progress at once
MaxEnqueuers == 2

\* number of messages the broker hands to the consumer in one batch
MaxBatch == 2

\* identifiers of rows are 1..MaxId: the rank of the identifier in the
\* string order the database compares them in
MaxId == 2

\* Date.now() takes the values 1..MaxNow
MaxNow == 2

\* rows in the four workflow tables together
MaxRows == 2

\* largest pagination.limit a caller passes
MaxLimit == 2

\* largest LARGE_DATA_THRESHOLD a payload is stored under
MaxThreshold == 4

\* number of update calls that may be in progress at once
MaxUpdaters == 2

\* number of streamer calls that may be in progress at once
MaxStreamCallers == 2

\* bytes of a stream at which the callers stop writing to it
MaxStreamLen == 2

\* LARGE_DATA_THRESHOLD of the run and step storage
LargeDataThreshold == 3

\* inputs of the coordinator's operations
RunIds == {"r1"}
StepIds == {"s1", "s2"}
Statuses == {"pending", "running"}
MetaKeys == {"k"}
MetaValues == {"v"}

\* WorkflowRunStatus
WorkflowRunStatuses ==
    {"pending", "running", "completed", "failed", "cancelled", "paused"}

StepOps == {"startStep", "completeStep", "failStep"}
MutatingOps == StepOps \cup {"updateWorkflowStatus", "setMetadata"}

VARIABLES
    \* WorkflowRunObject
    workflowState,   \* this.workflowState: Null or a WorkflowState
    storage,         \* the durable value under key 'state': Null or a snapshot
    calls,           \* the requests in progress, in the order they were issued
    response,        \* the response the last step sent to a caller, if any
    \* createQueue / createQueueConsumer
    queue_messages,  \* rows of table queue_messages
    broker,          \* env.QUEUE: the messages sent, with their delivery state
    enq,             \* per enqueuer: the queue() call it has in progress
    returned,        \* what queue() calls have returned so far, and whether
                     \* from the existing row or after their own insert
    sequential,      \* no two queue() calls have overlapped so far
    consumer,        \* the batch consumer's position in its batch
    http,            \* the HTTP queue handler's position in its request
    done,            \* the delivery the last step finished, if any
    \* storage: the D1 tables the list operations read
    workflow_runs,   \* rows of table workflow_runs
    workflow_steps,  \* rows of table workflow_steps
    workflow_events, \* rows of table workflow_events
    workflow_hooks,  \* rows of table workflow_hooks
    now,             \* Date.now()
    trav,            \* a caller following cursors: the pages it has so far
    \* utils/r2: payloads inline or in the R2 bucket
    bucket,          \* env.WORKFLOW_STORAGE: the objects, each a key and a text
    stored,          \* the last storeData call: its arguments and reference
    retrieved,       \* what retrieveData did with that reference, if called
    \* storage: get and update of runs and steps
    upd,             \* per caller: the update call it has in progress
    serial,          \* no two update calls have overlapped so far
    reply,           \* what the last step returned to its caller, if anything
    \* createStreamer
    streams,         \* rows of table streams
    stream_objects,  \* env.WORKFLOW_STORAGE: the objects under streams/
    sc               \* per caller: its streamer call, in progress or finished

coordVars == <<workflowState, storage, calls, response>>

queueVars == <<queue_messages, broker, enq, returned, sequential, consumer,
               http, done>>

pageVars == <<workflow_runs, workflow_steps, workflow_events, workflow_hooks,
              now, trav>>

vars == <<workflowState, storage, calls, response, queue_messages, broker, enq,
          returned, sequential, consumer, http, done, workflow_runs,
          workflow_steps, workflow_events, workflow_hooks, now, trav,
          bucket, stored, retrieved, upd, serial, reply, streams,
          stream_objects, sc>>

dataVars == <<bucket, stored, retrieved>>

repoVars == <<upd, serial, reply>>

streamVars == <<streams, stream_objects, sc>>

nonStreamVars == <<coordVars, queueVars, workflow_runs, workflow_steps,
                   workflow_events, workflow_hooks, trav, dataVars, repoVars>>

\* what the coordinator, the queue, the list operations leave alone
nonCoordVars == <<queueVars, pageVars, dataVars, repoVars, streamVars>>

nonQueueVars == <<coordVars, streamVars, pageVars, dataVars, repoVars>>

nonPageVars == <<coordVars, streamVars, queueVars, dataVars, repoVars>>

nonDataVars == <<coordVars, streamVars, queueVars, pageVars, repoVars>>

\* what a list call leaves alone besides the tables and what it returns
nonListVars == <<coordVars, streamVars, queueVars, dataVars, upd, serial>>

\* what the run and step storage leaves alone besides its tables, the
\* bucket and its callers
nonRepoVars == <<coordVars, streamVars, queueVars, stored, retrieved,
                 workflow_events, workflow_hooks>>

(***************************************************************************)
(* WorkflowState values.  A step collection is either a JavaScript Set or  *)
(* the Array that persistState writes in its place; the two hold the same  *)
(* members but an Array has neither add() nor delete().                    *)
(***************************************************************************)
Null == [isNull |-> TRUE]

NewSet == [kind |-> "Set", elems |-> {}]

ArrayFrom(coll) == [kind |-> "Array", elems |-> coll.elems]

\* activeSteps.add(x) / .delete(x): defined on a Set only
HasSetMethods(coll) == coll.kind = "Set"

SetAdd(coll, x) == [coll EXCEPT !.elems = @ \cup {x}]

SetDelete(coll, x) == [coll EXCEPT !.elems = @ \ {x}]

NoMetadata == [k \in MetaKeys |-> "undefined"]

InitialState(runId) ==
    [runId |-> runId,
     status |-> "pending",
     activeSteps |-> NewSet,
     completedSteps |-> NewSet,
     failedSteps |-> NewSet,
     metadata |-> NoMetadata]

\* persistState drops one of the collections from the snapshot
SerializableNoCompleted(st) ==
    [st EXCEPT !.activeSteps = ArrayFrom(st.activeSteps),
               !.completedSteps = [kind |-> "Array", elems |-> {}],
               !.failedSteps = ArrayFrom(st.failedSteps)]

\* persistState: the object handed to storage.put
Serializable(st) ==
    [st EXCEPT !.activeSteps = ArrayFrom(st.activeSteps),
               !.completedSteps = ArrayFrom(st.completedSteps),
               !.failedSteps = ArrayFrom(st.failedSteps)]

NoResponse == [kind |-> "none"]

\* the response of a request: "ok", or the error it threw; w tells what had
\* become of the request's put when it returned
Response(op, arg, result, w) ==
    [kind |-> "response", op |-> op, arg |-> arg, result |-> result, w |-> w]

\* the requests whose put is issued and not yet durable (always the newest)
Queued == {i \in 1..Len(calls) : calls[i].w = "queued"}

RemoveAt(seq, i) == SubSeq(seq, 1, i - 1) \o SubSeq(seq, i + 1, Len(seq))

\* storage.get('state'): the durable value, or the newest put still in flight
\* (the object's storage cache answers reads with its own earlier writes)
StorageGet ==
    IF Queued = {} THEN storage ELSE calls[Len(calls)].snap

\* the runtime accepts another request
Free == Len(calls) < MaxInFlight

\* a variant of the failing request below that creates the state on the way
ThrowAndCreate(op, arg, err) ==
    /\ response' = Response(op, arg, err, "none")
    /\ workflowState' = InitialState("r1")
    /\ UNCHANGED <<storage, calls>>
    /\ UNCHANGED nonCoordVars

\* a request ends by throwing
Throw(op, arg, err) ==
    /\ response' = Response(op, arg, err, "none")
    /\ UNCHANGED <<workflowState, storage, calls>>
    /\ UNCHANGED nonCoordVars

\* a request changed this.workflowState to st and is inside
\* `await this.persistState()`: the put is issued, not yet durable
Persist(op, arg, st) ==
    /\ workflowState' = st
    /\ calls' = Append(calls, [op |-> op, arg |-> arg, w |-> "queued",
                               snap |-> Serializable(st)])
    /\ response' = NoResponse
    /\ UNCHANGED storage
    /\ UNCHANGED nonCoordVars

(***************************************************************************)
(* initialize(runId).  The runtime delivers no other event to the object   *)
(* while the storage read is outstanding, so the read and the assignment   *)
(* of this.workflowState are one step.                                     *)
(***************************************************************************)
Initialize(runId) ==
    /\ Free
    /\ IF StorageGet # Null
       THEN /\ workflowState' = StorageGet
            /\ response' = Response("initialize", runId, "ok", "none")
            /\ UNCHANGED <<storage, calls>>
            /\ UNCHANGED nonCoordVars
       ELSE Persist("initialize", runId, InitialState(runId))

(***************************************************************************)
(* updateWorkflowStatus(status)                                            *)
(***************************************************************************)
UpdateWorkflowStatus(status) ==
    /\ Free
    /\ IF workflowState = Null
       THEN Throw("updateWorkflowStatus", status, "NotInitialized")
       ELSE Persist("updateWorkflowStatus", status,
                    [workflowState EXCEPT !.status = status])

(***************************************************************************)
(* startStep(stepId)                                                       *)
(***************************************************************************)
StartStepEffect(st, stepId) ==
    [st EXCEPT !.activeSteps = SetAdd(@, stepId)]

StartStep(stepId) ==
    /\ Free
    /\ IF workflowState = Null
       THEN Throw("startStep", stepId, "NotInitialized")
       ELSE IF ~HasSetMethods(workflowState.activeSteps)
       THEN Throw("startStep", stepId, "TypeError")
       ELSE Persist("startStep", stepId,
                    StartStepEffect(workflowState, stepId))

(***************************************************************************)
(* completeStep(stepId)                                                    *)
(***************************************************************************)
CompleteStepEffect(st, stepId) ==
    [st EXCEPT !.activeSteps = SetDelete(@, stepId),
               !.completedSteps = SetAdd(@, stepId)]

CompleteStep(stepId) ==
    /\ Free
    /\ IF workflowState = Null
       THEN Throw("completeStep", stepId, "NotInitialized")
       ELSE IF ~HasSetMethods(workflowState.activeSteps)
       THEN Throw("completeStep", stepId, "TypeError")
       ELSE Persist("completeStep", stepId,
                    CompleteStepEffect(workflowState, stepId))

(***************************************************************************)
(* failStep(stepId)                                                        *)
(***************************************************************************)
FailStepEffect(st, stepId) ==
    [st EXCEPT !.activeSteps = SetDelete(@, stepId),
               !.failedSteps = SetAdd(@, stepId)]

FailStep(stepId) ==
    /\ Free
    /\ IF workflowState = Null
       THEN Throw("failStep", stepId, "NotInitialized")
       ELSE IF ~HasSetMethods(workflowState.activeSteps)
       THEN Throw("failStep", stepId, "TypeError")
       ELSE Persist("failStep", stepId,
                    FailStepEffect(workflowState, stepId))

(***************************************************************************)
(* setMetadata(key, value)                                                 *)
(***************************************************************************)
SetMetadata(key, value) ==
    /\ Free
    /\ IF workflowState = Null
       THEN Throw("setMetadata", <<key, value>>, "NotInitialized")
       ELSE Persist("setMetadata", <<key, value>>,
                    [workflowState EXCEPT !.metadata[key] = value])

(***************************************************************************)
(* canAcceptSteps(): answered from memory, without any await               *)
(***************************************************************************)
\* a variant of the answer below that refuses finished runs only
canAcceptUnlessFinished(st) ==
    IF st = Null THEN "false"
    ELSE IF st.status \in {"completed", "failed", "cancelled"} THEN "false"
    ELSE "true"

canAcceptSteps(st) ==
    IF st = Null THEN "false"
    ELSE IF st.status = "running" \/ st.status = "pending" THEN "true"
    ELSE "false"

CanAcceptSteps ==
    /\ response' = Response("canAcceptSteps", "", canAcceptSteps(workflowState),
                            "none")
    /\ UNCHANGED <<workflowState, storage, calls>>
    /\ UNCHANGED nonCoordVars

(***************************************************************************)
(* The storage layer makes the oldest outstanding put durable.  Puts on    *)
(* one object take effect in the order they were issued.                   *)
(***************************************************************************)
StoragePut ==
    /\ Queued # {}
    /\ LET i == CHOOSE j \in Queued : \A k \in Queued : j <= k IN
         /\ storage' = calls[i].snap
         /\ calls' = [j \in 1..Len(calls) |->
                        IF j = i
                        THEN [calls[j] EXCEPT !.w = "current", !.snap = Null]
                        ELSE IF calls[j].w = "current"
                             THEN [calls[j] EXCEPT !.w = "overwritten"]
                             ELSE calls[j]]
    /\ response' = NoResponse
    /\ UNCHANGED workflowState
    /\ UNCHANGED nonCoordVars

\* the request returns without waiting for its put
PutResolvedNoAwait(i) == TRUE

\* `await this.state.storage.put(...)` has resolved for request i
PutResolved(i) == calls[i].w # "queued"

\* the mutating method returns to its caller
Return(i) ==
    /\ PutResolved(i)
    /\ response' = Response(calls[i].op, calls[i].arg, "ok", calls[i].w)
    /\ calls' = RemoveAt(calls, i)
    /\ UNCHANGED <<workflowState, storage>>
    /\ UNCHANGED nonCoordVars

(***************************************************************************)
(* The object is evicted or crashes: memory and the requests in progress   *)
(* are lost, durable storage stays; puts not yet durable are lost too.     *)
(***************************************************************************)
ColdStart ==
    /\ workflowState' = Null
    /\ calls' = <<>>
    /\ response' = NoResponse
    /\ UNCHANGED storage
    /\ UNCHANGED nonCoordVars

(***************************************************************************)
(* storage.put rejects (the value is over the size the storage takes, or   *)
(* the storage fails): `await this.persistState()` throws after the method *)
(* has changed this.workflowState, and fetch answers with status 500.      *)
(***************************************************************************)
\* this.workflowState after the statements a mutating method runs before its
\* persistState
Mutated(op, arg, st) ==
    CASE op = "initialize" -> InitialState(arg)
      [] op = "updateWorkflowStatus" -> [st EXCEPT !.status = arg]
      [] op = "startStep" -> StartStepEffect(st, arg)
      [] op = "completeStep" -> CompleteStepEffect(st, arg)
      [] op = "failStep" -> FailStepEffect(st, arg)
      [] op = "setMetadata" -> [st EXCEPT !.metadata[arg[1]] = arg[2]]

\* the method reaches its persistState
ReachesPersist(op) ==
    IF op = "initialize" THEN StorageGet = Null
    ELSE /\ workflowState # Null
         /\ op \in StepOps => HasSetMethods(workflowState.activeSteps)

PutRejected(op, arg) ==
    /\ Free
    /\ ReachesPersist(op)
    /\ workflowState' = Mutated(op, arg, workflowState)
    /\ response' = Response(op, arg, "PutRejected", "none")
    /\ UNCHANGED <<storage, calls>>
    /\ UNCHANGED nonCoordVars

(***************************************************************************)
(* getState() and getMetadata(key): answered from memory, without await    *)
(***************************************************************************)
\* the state the response carries is this.workflowState
GetState ==
    /\ response' = Response("getState", "",
                            IF workflowState = Null THEN "null" ELSE "state",
                            "none")
    /\ UNCHANGED <<workflowState, storage, calls>>
    /\ UNCHANGED nonCoordVars

GetMetadata(key) ==
    /\ response' = Response("getMetadata", key,
                            IF workflowState = Null THEN "undefined"
                            ELSE workflowState.metadata[key],
                            "none")
    /\ UNCHANGED <<workflowState, storage, calls>>
    /\ UNCHANGED nonCoordVars

CoordInit ==
    /\ workflowState = Null
    /\ storage = Null
    /\ calls = <<>>
    /\ response = NoResponse

(***************************************************************************)
(* The queue: createQueue(env).queue, createQueueHandler and               *)
(* createQueueConsumer over table queue_messages and the broker env.QUEUE. *)
(***************************************************************************)
Enqueuers == 1..MaxEnqueuers

\* message identifiers generateMessageId can draw
MessageIds == {"msg_1", "msg_2"}

\* queue names, as character sequences; the handler's prefix
QueuePrefix == <<"w", "_">>

QueueNames == {<<"w", "_", "a">>, <<"s", "_", "a">>}

\* opts.idempotencyKey: absent, the empty string, or a key
NoKey == "undefined"

IdempotencyKeys == {NoKey, "", "k1"}

\* SQL NULL in a text or integer column
SqlNull == "NULL"

\* String.prototype.startsWith
StartsWith(str, prefix) ==
    /\ Len(prefix) <= Len(str)
    /\ SubSeq(str, 1, Len(prefix)) = prefix

\* JavaScript truthiness of opts?.idempotencyKey
Truthy(key) == key # NoKey /\ key # ""

\* the SELECT looks the key up in every queue
ExistingAnyQueue(queueName, key) ==
    {row \in queue_messages : row.idempotency_key = key}

\* SELECT message_id FROM queue_messages
\*   WHERE idempotency_key = ? AND queue_name = ?
Existing(queueName, key) ==
    {row \in queue_messages :
        row.idempotency_key = key /\ row.queue_name = queueName}

IdleEnq == [pc |-> "idle", messageId |-> "none", queueName |-> <<>>,
            key |-> NoKey]

NoDelivery == [kind |-> "none"]

\* queue(queueName, message, opts): up to the first await
EnqCall(e, queueName, key, id) ==
    /\ enq[e].pc = "idle"
    /\ enq' = [enq EXCEPT ![e] =
                 [pc |-> IF Truthy(key) THEN "select" ELSE "insert",
                  messageId |-> id, queueName |-> queueName, key |-> key]]
    /\ sequential' = (sequential /\ \A f \in Enqueuers : enq[f].pc = "idle")
    /\ done' = NoDelivery
    /\ UNCHANGED <<queue_messages, broker, returned, consumer, http>>
    /\ UNCHANGED nonQueueVars

\* the SELECT has answered: return the existing identifier, or go on
EnqSelect(e) ==
    /\ enq[e].pc = "select"
    /\ LET found == Existing(enq[e].queueName, enq[e].key) IN
         IF found # {}
         THEN \E row \in found :
                /\ returned' = returned \cup
                      {[queueName |-> enq[e].queueName, key |-> enq[e].key,
                        messageId |-> row.message_id, existing |-> TRUE]}
                /\ enq' = [enq EXCEPT ![e] = IdleEnq]
         ELSE /\ enq' = [enq EXCEPT ![e].pc = "insert"]
              /\ UNCHANGED returned
    /\ done' = NoDelivery
    /\ UNCHANGED <<queue_messages, broker, sequential, consumer, http>>
    /\ UNCHANGED nonQueueVars

\* the INSERT: message_id is the primary key, a duplicate makes it throw
EnqInsert(e) ==
    /\ enq[e].pc = "insert"
    /\ IF \E row \in queue_messages : row.message_id = enq[e].messageId
       THEN /\ enq' = [enq EXCEPT ![e] = IdleEnq]
            /\ UNCHANGED queue_messages
       ELSE /\ queue_messages' = queue_messages \cup
                  {[message_id |-> enq[e].messageId,
                    queue_name |-> enq[e].queueName,
                    idempotency_key |->
                        IF Truthy(enq[e].key) THEN enq[e].key ELSE SqlNull,
                    processed_at |-> SqlNull]}
            /\ enq' = [enq EXCEPT ![e].pc = "send"]
    /\ done' = NoDelivery
    /\ UNCHANGED <<broker, returned, sequential, consumer, http>>
    /\ UNCHANGED nonQueueVars

\* env.QUEUE.send succeeded: the call returns its own identifier
EnqSend(e) ==
    /\ enq[e].pc = "send"
    /\ broker' = broker \cup
          {[messageId |-> enq[e].messageId, queueName |-> enq[e].queueName,
            idempotencyKey |-> enq[e].key, status |-> "ready"]}
    /\ returned' = returned \cup
          {[queueName |-> enq[e].queueName, key |-> enq[e].key,
            messageId |-> enq[e].messageId, existing |-> FALSE]}
    /\ enq' = [enq EXCEPT ![e] = IdleEnq]
    /\ done' = NoDelivery
    /\ UNCHANGED <<queue_messages, sequential, consumer, http>>
    /\ UNCHANGED nonQueueVars

\* env.QUEUE.send failed: the call throws, the row stays
EnqSendFail(e) ==
    /\ enq[e].pc = "send"
    /\ enq' = [enq EXCEPT ![e] = IdleEnq]
    /\ done' = NoDelivery
    /\ UNCHANGED <<queue_messages, broker, returned, sequential, consumer, http>>
    /\ UNCHANGED nonQueueVars

(***************************************************************************)
(* Deliveries.  A handler returns normally ("normal"), returns             *)
(* {timeoutSeconds} ("retry") or throws ("threw").                         *)
(***************************************************************************)
HandlerResults == {"normal", "retry", "threw"}

\* the delivery goes on to the UPDATE whatever the handler did
AfterHandlerAlwaysMark(result) == "mark"

\* where a delivery goes after its handler: on to the UPDATE, or out
AfterHandler(result) == IF result = "normal" THEN "mark" ELSE "out"

\* UPDATE queue_messages SET processed_at = ? WHERE message_id = ?
MarkProcessed(messageId) ==
    {IF row.message_id = messageId
     THEN [row EXCEPT !.processed_at = "now"] ELSE row : row \in queue_messages}

SetStatus(messageId, status) ==
    {IF m.messageId = messageId THEN [m EXCEPT !.status = status] ELSE m :
        m \in broker}

Delivery(entry, messageId, queueName, invoked, result, marked, signal) ==
    [kind |-> "delivery", entry |-> entry, messageId |-> messageId,
     queueName |-> queueName, invoked |-> invoked, result |-> result,
     marked |-> marked, signal |-> signal]

IdleConsumer == [pc |-> "idle", batch |-> <<>>, i |-> 0]

\* the sequences of distinct messages the broker can hand over as a batch
Batches ==
    LET ready == {m \in broker : m.status = "ready"} IN
      UNION {{b \in [1..n -> ready] : \A i, j \in 1..n : i # j => b[i] # b[j]} :
                n \in 1..MaxBatch}

\* the broker invokes the consumer with a batch
ConsumerStart(b) ==
    /\ consumer.pc = "idle"
    /\ consumer' = [pc |-> "handler", batch |-> b, i |-> 1]
    /\ broker' = {IF \E i \in 1..Len(b) : b[i] = m
                  THEN [m EXCEPT !.status = "delivered"] ELSE m : m \in broker}
    /\ done' = NoDelivery
    /\ UNCHANGED <<queue_messages, enq, returned, sequential, http>>
    /\ UNCHANGED nonQueueVars

\* a variant of the loop below that returns after its first message
ConsumerReturn == IdleConsumer

\* the for loop goes to the next message, or the consumer returns
ConsumerAdvance ==
    IF consumer.i < Len(consumer.batch)
    THEN [consumer EXCEPT !.pc = "handler", !.i = @ + 1]
    ELSE IdleConsumer

\* the message is acknowledged although the UPDATE failed
ConsumerSignalAlwaysAck(result, markOk) ==
    IF result = "normal" THEN "ack" ELSE "retry"

\* msg.ack() or msg.retry(), by the handler's result and the UPDATE's
ConsumerSignal(result, markOk) ==
    IF result = "normal" /\ markOk THEN "ack" ELSE "retry"

\* the handler of the current message has settled
ConsumerHandler(result) ==
    /\ consumer.pc = "handler"
    /\ LET msg == consumer.batch[consumer.i] IN
         IF AfterHandler(result) = "mark"
         THEN /\ consumer' = [consumer EXCEPT !.pc = result]
              /\ done' = NoDelivery
              /\ UNCHANGED broker
         ELSE /\ broker' = SetStatus(msg.messageId, "ready")
              /\ consumer' = ConsumerAdvance
              /\ done' = Delivery("batch", msg.messageId, msg.queueName, TRUE,
                                  result, FALSE,
                                  ConsumerSignal(result, FALSE))
    /\ UNCHANGED <<queue_messages, enq, returned, sequential, http>>
    /\ UNCHANGED nonQueueVars

\* the UPDATE of the current message has settled, then msg.ack() or, from
\* the catch block, msg.retry()
ConsumerMark(markOk) ==
    /\ consumer.pc \in HandlerResults
    /\ LET msg == consumer.batch[consumer.i]
           signal == ConsumerSignal(consumer.pc, markOk) IN
         /\ queue_messages' =
               IF markOk THEN MarkProcessed(msg.messageId) ELSE queue_messages
         /\ broker' = SetStatus(msg.messageId,
                                IF signal = "ack" THEN "acked" ELSE "ready")
         /\ done' = Delivery("batch", msg.messageId, msg.queueName, TRUE,
                             consumer.pc, markOk, signal)
    /\ consumer' = ConsumerAdvance
    /\ UNCHANGED <<enq, returned, sequential, http>>
    /\ UNCHANGED nonQueueVars

IdleHttp == [pc |-> "idle", messageId |-> "none", queueName |-> <<>>]

\* every queue name passes
PrefixOkAlways(queueName) == TRUE

\* body.queueName.startsWith(queueNamePrefix)
PrefixOk(queueName) == StartsWith(queueName, QueuePrefix)

\* a request reaches the handler made by createQueueHandler
HttpRequest(messageId, queueName) ==
    /\ http.pc = "idle"
    /\ IF PrefixOk(queueName)
       THEN /\ http' = [pc |-> "handler", messageId |-> messageId,
                        queueName |-> queueName]
            /\ done' = NoDelivery
       ELSE /\ done' = Delivery("http", messageId, queueName, FALSE, "none",
                                FALSE, "400")
            /\ UNCHANGED http
    /\ UNCHANGED <<queue_messages, broker, enq, returned, sequential, consumer>>
    /\ UNCHANGED nonQueueVars

\* the handler of the request has settled
HttpHandler(result) ==
    /\ http.pc = "handler"
    /\ IF AfterHandler(result) = "mark"
       THEN /\ http' = [http EXCEPT !.pc = result]
            /\ done' = NoDelivery
       ELSE /\ http' = IdleHttp
            /\ done' = Delivery("http", http.messageId, http.queueName, TRUE,
                                result, FALSE,
                                IF result = "retry" THEN "503" ELSE "500")
    /\ UNCHANGED <<queue_messages, broker, enq, returned, sequential, consumer>>
    /\ UNCHANGED nonQueueVars

\* the UPDATE of the request has settled: 200, or 500 from the catch block
HttpMark(markOk) ==
    /\ http.pc \in HandlerResults
    /\ queue_messages' =
          IF markOk THEN MarkProcessed(http.messageId) ELSE queue_messages
    /\ done' = Delivery("http", http.messageId, http.queueName, TRUE, http.pc,
                        markOk, IF markOk THEN "200" ELSE "500")
    /\ http' = IdleHttp
    /\ UNCHANGED <<broker, enq, returned, sequential, consumer>>
    /\ UNCHANGED nonQueueVars

QueueInit ==
    /\ queue_messages = {}
    /\ broker = {}
    /\ enq = [e \in Enqueuers |-> IdleEnq]
    /\ returned = {}
    /\ sequential = TRUE
    /\ consumer = IdleConsumer
    /\ http = IdleHttp
    /\ done = NoDelivery

\* the queue() calls alone, any number up to MaxEnqueuers at once
EnqueueNext ==
    \/ \E e \in Enqueuers, q \in QueueNames, k \in IdempotencyKeys,
          id \in MessageIds : EnqCall(e, q, k, id)
    \/ \E e \in Enqueuers : EnqSelect(e)
    \/ \E e \in Enqueuers : EnqInsert(e)
    \/ \E e \in Enqueuers : EnqSend(e)
    \/ \E e \in Enqueuers : EnqSendFail(e)

\* deliveries of the messages that one enqueuer sends without a key
DeliveryNext ==
    \/ \E q \in QueueNames, id \in MessageIds : EnqCall(1, q, NoKey, id)
    \/ EnqInsert(1)
    \/ EnqSend(1)
    \/ EnqSendFail(1)
    \/ \E b \in Batches : ConsumerStart(b)
    \/ \E r \in HandlerResults : ConsumerHandler(r)
    \/ \E ok \in BOOLEAN : ConsumerMark(ok)
    \/ \E m \in MessageIds, q \in QueueNames : HttpRequest(m, q)
    \/ \E r \in HandlerResults : HttpHandler(r)
    \/ \E ok \in BOOLEAN : HttpMark(ok)

(***************************************************************************)
(* Storage: the list operations and their keyset pagination.               *)
(***************************************************************************)
Ids == 1..MaxId
\* with one more identifier, for a row that arrives late
MoreIds == 1..(MaxId + 1)
\* the empty string: falsy, and below every identifier in string order
EmptyString == 0
WorkflowNames == {"wf1", "wf2"}
CorrelationIds == {"c1", "c2"}
\* a parameter the caller left out (undefined)
Unset == ""
SortOrders == {Unset, "asc", "desc"}
Limits == 0..MaxLimit       \* 0 also stands for a limit left out: !limit
\* a JSON value, as far as the cursor code looks at it: its type and, for an
\* object, its members
NoJson == [type |-> "none", members |-> <<>>]
Undefined == "undefined"
Member(value, name) ==
    IF name \in DOMAIN value.members THEN value.members[name] ELSE Undefined

\* a cursor string is left out or empty ("unset"), or the base64 text of a
\* JSON value ("base64json"), or any other text ("garbage")
NoCursor == [kind |-> "unset", value |-> NoJson]
IsSet(cursor) == cursor.kind # "unset"
ListOps == {"runs.list", "steps.list", "events.list",
            "events.listByCorrelationId", "hooks.list"}

(***************************************************************************)
(* utils/r2: payloads stored inline or in the R2 bucket.                   *)
(***************************************************************************)
\* the characters of JSON texts; NonAscii is one UTF-16 code unit that takes
\* two bytes in UTF-8
Quote == "quote"
Backslash == "backslash"
NonAscii == "U+00E9"
Digits == <<"0", "1", "2", "3", "4", "5", "6", "7", "8", "9">>

\* JSON values
JsonNull == [t |-> "null", v |-> <<>>]
JsonNumber(n) == [t |-> "number", v |-> n]
JsonString(chars) == [t |-> "string", v |-> chars]
JsonArray(items) == [t |-> "array", v |-> items]

\* the payloads stored: null, a digit, strings without and with characters
\* that are escaped or not ASCII, flat and nested arrays
Payloads ==
    << JsonNull,
       JsonNumber(7),
       JsonString(<<>>),
       JsonString(<<"a">>),
       JsonString(<<NonAscii>>),
       JsonString(<<Quote>>),
       JsonArray(<<>>),
       JsonArray(<<JsonNumber(1), JsonString(<<"a">>)>>),
       JsonArray(<<JsonArray(<<>>), JsonNull>>) >>

Thresholds == 0..MaxThreshold

RECURSIVE EscapeChars(_)
EscapeChars(chars) ==
    IF chars = <<>> THEN <<>>
    ELSE (IF Head(chars) \in {Quote, Backslash}
            THEN <<Backslash, Head(chars)>> ELSE <<Head(chars)>>)
         \o EscapeChars(Tail(chars))

\* JSON.stringify
RECURSIVE Stringify(_)
RECURSIVE StringifyItems(_)
Stringify(value) ==
    CASE value.t = "null" -> <<"n", "u", "l", "l">>
      [] value.t = "number" -> <<Digits[value.v + 1]>>
      [] value.t = "string" -> <<Quote>> \o EscapeChars(value.v) \o <<Quote>>
      [] value.t = "array" -> <<"[">> \o StringifyItems(value.v) \o <<"]">>

StringifyItems(items) ==
    IF items = <<>> THEN <<>>
    ELSE IF Len(items) = 1 THEN Stringify(items[1])
    ELSE Stringify(items[1]) \o <<",">> \o StringifyItems(Tail(items))

NoParse == [ok |-> FALSE, value |-> JsonNull, rest |-> <<>>]

DigitValue(char) == CHOOSE n \in 0..9 : Digits[n + 1] = char

\* JSON.parse, by recursive descent: each returns the value read and the
\* text left
RECURSIVE ParseChars(_, _)
RECURSIVE ParseValue(_)
RECURSIVE ParseItems(_, _)
ParseChars(text, chars) ==
    IF text = <<>> THEN NoParse
    ELSE IF Head(text) = Quote
      THEN [ok |-> TRUE, value |-> JsonString(chars), rest |-> Tail(text)]
    ELSE IF Head(text) = Backslash
      THEN IF Len(text) < 2 THEN NoParse
           ELSE ParseChars(Tail(Tail(text)), Append(chars, text[2]))
    ELSE ParseChars(Tail(text), Append(chars, Head(text)))

ParseValue(text) ==
    IF text = <<>> THEN NoParse
    ELSE IF Head(text) = "n"
      THEN IF Len(text) >= 4 /\ SubSeq(text, 1, 4) = <<"n", "u", "l", "l">>
             THEN [ok |-> TRUE, value |-> JsonNull,
                   rest |-> SubSeq(text, 5, Len(text))]
             ELSE NoParse
    ELSE IF \E n \in 0..9 : Digits[n + 1] = Head(text)
      THEN [ok |-> TRUE, value |-> JsonNumber(DigitValue(Head(text))),
            rest |-> Tail(text)]
    ELSE IF Head(text) = Quote THEN ParseChars(Tail(text), <<>>)
    ELSE IF Head(text) = "["
      THEN IF Len(text) >= 2 /\ text[2] = "]"
             THEN [ok |-> TRUE, value |-> JsonArray(<<>>),
                   rest |-> Tail(Tail(text))]
             ELSE ParseItems(Tail(text), <<>>)
    ELSE NoParse

ParseItems(text, items) ==
    LET item == ParseValue(text)
    IN  IF ~item.ok \/ item.rest = <<>> THEN NoParse
        ELSE IF Head(item.rest) = ","
          THEN ParseItems(Tail(item.rest), Append(items, item.value))
        ELSE IF Head(item.rest) = "]"
          THEN [ok |-> TRUE, value |-> JsonArray(Append(items, item.value)),
                rest |-> Tail(item.rest)]
        ELSE NoParse

JsonParse(text) ==
    LET parsed == ParseValue(text)
    IN  IF parsed.ok /\ parsed.rest = <<>>
          THEN [threw |-> FALSE, value |-> parsed.value]
          ELSE [threw |-> TRUE, value |-> JsonNull]

\* the length of the text in bytes, which is not what storeData measures
RECURSIVE ByteLength(_)
ByteLength(text) ==
    IF text = <<>> THEN 0
    ELSE (IF Head(text) = NonAscii THEN 2 ELSE 1) + ByteLength(Tail(text))

\* an identifier as text
IdText(id) == Digits[id + 1]

generateR2Key(prefix, id, field) == <<prefix, "/", IdText(id), "/", field>>

\* the keys of one run's input and output
R2Keys ==
    {generateR2Key("inputs", MaxId, "input"),
     generateR2Key("outputs", MaxId, "output")}

\* the keys of one run's and one step's payloads
RunKeys ==
    R2Keys \cup {generateR2Key("step-inputs", MaxId, "input")}

\* bucket.get / bucket.put
BucketGet(objects, key) == {object \in objects : object.key = key}

BucketPut(objects, key, text) ==
    {object \in objects : object.key # key} \cup {[key |-> key, text |-> text]}

InlineReference(jsonData) == [type |-> "inline", data |-> jsonData]
R2Reference(key) == [type |-> "r2", data |-> key]

IsSmall(jsonData, threshold) == Len(jsonData) <= threshold

\* a variant of storeData that names an object without writing it
storeDataUnwritten(objects, data, keyPrefix, id, field, threshold) ==
    LET jsonData == Stringify(data)
        key == generateR2Key(keyPrefix, id, field)
    IN  IF IsSmall(jsonData, threshold)
          THEN [reference |-> InlineReference(jsonData), put |-> FALSE,
                objects |-> objects]
          ELSE [reference |-> R2Reference(key), put |-> TRUE,
                objects |-> objects]

\* storeData: the reference returned and the bucket afterwards
storeData(objects, data, keyPrefix, id, field, threshold) ==
    LET jsonData == Stringify(data)
        key == generateR2Key(keyPrefix, id, field)
    IN  IF IsSmall(jsonData, threshold)
          THEN [reference |-> InlineReference(jsonData), put |-> FALSE,
                objects |-> objects]
          ELSE [reference |-> R2Reference(key), put |-> TRUE,
                objects |-> BucketPut(objects, key, jsonData)]

\* a variant of the text retrieveData parses for an r2 reference
R2TextOfKey(object) == <<"n", "u", "l", "l">>

R2Text(object) == object.text

\* a column without text, and the reference createDataReference makes of
\* columns without values
NullText == <<>>
NoReference == [type |-> SqlNull, data |-> NullText]

createDataReference(type, data) ==
    IF type = SqlNull \/ data = NullText THEN NoReference
    ELSE [type |-> type, data |-> data]

\* a variant of retrieveData that takes a missing object for no data
retrieveDataOrNull(objects, reference) ==
    IF reference.type = "inline" THEN JsonParse(reference.data)
    ELSE LET found == BucketGet(objects, reference.data)
         IN  IF reference.type = SqlNull \/ found = {}
               THEN [threw |-> FALSE, value |-> JsonNull]
               ELSE JsonParse(R2Text(CHOOSE object \in found : TRUE))

retrieveData(objects, reference) ==
    IF reference.type = SqlNull
      THEN [threw |-> FALSE, value |-> JsonNull]
    ELSE IF reference.type = "inline"
      THEN JsonParse(reference.data)
      ELSE LET found == BucketGet(objects, reference.data)
           IN  IF found = {}
                 THEN [threw |-> TRUE, value |-> JsonNull]
                 ELSE JsonParse(R2Text(CHOOSE object \in found : TRUE))

NotStored == [state |-> "none"]
NotRetrieved == [state |-> "none"]

StoreData(data, keyPrefix, id, field, threshold) ==
    LET result == storeData(bucket, data, keyPrefix, id, field, threshold)
    IN  /\ bucket' = result.objects
        /\ stored' = [state |-> "stored", data |-> data,
                      threshold |-> threshold,
                      key |-> generateR2Key(keyPrefix, id, field),
                      jsonData |-> Stringify(data),
                      reference |-> result.reference, put |-> result.put]
        /\ retrieved' = NotRetrieved
        /\ UNCHANGED nonDataVars

\* retrieveData of the reference the last storeData returned
RetrieveData ==
    /\ stored.state = "stored"
    /\ retrieved' = [state |-> "retrieved"]
                      @@ retrieveData(bucket, stored.reference)
    /\ UNCHANGED <<bucket, stored>>
    /\ UNCHANGED nonDataVars

\* an object disappears from the bucket, by something outside the repository
ObjectLost(key) ==
    /\ BucketGet(bucket, key) # {}
    /\ bucket' = {object \in bucket : object.key # key}
    /\ retrieved' = NotRetrieved
    /\ trav' = [state |-> "none"]
    /\ reply' = [op |-> "none"]
    /\ UNCHANGED <<stored, workflow_runs, workflow_steps, workflow_events,
                   workflow_hooks, now, upd, serial>>
    /\ UNCHANGED <<coordVars, streamVars, queueVars>>

DataInit ==
    /\ bucket = {}
    /\ stored = NotStored
    /\ retrieved = NotRetrieved

DataNext ==
    \/ \E i \in 1..Len(Payloads), t \in Thresholds :
          \/ StoreData(Payloads[i], "inputs", MaxId, "input", t)
          \/ StoreData(Payloads[i], "outputs", MaxId, "output", t)
    \/ RetrieveData
    \/ \E key \in R2Keys : ObjectLost(key)

Updaters == 1..MaxUpdaters

IdleUpdate == [pc |-> "idle"]

RowCount ==
    Cardinality(workflow_runs) + Cardinality(workflow_steps)
        + Cardinality(workflow_events) + Cardinality(workflow_hooks)

\* btoa(JSON.stringify({lastId, lastTimestamp})): the text carries the two
\* values in this order
encodeCursor(cursor) ==
    [kind |-> "base64json",
     value |-> [type |-> "object",
                members |-> [lastId |-> cursor.lastId,
                             lastTimestamp |-> cursor.lastTimestamp]]]

\* JSON.parse(atob(cursor)) as PaginationCursor: text that is not the base64
\* of JSON throws, every JSON value is returned as it is
decodeCursor(cursor) ==
    IF cursor.kind = "base64json"
      THEN [threw |-> FALSE, value |-> cursor.value]
      ELSE [threw |-> TRUE, value |-> NoJson]

\* a || b on identifiers
OrElse(a, b) == IF a # EmptyString THEN a ELSE b

Field(item, name) == IF name \in DOMAIN item THEN item[name] ELSE EmptyString

Take(seq, n) == SubSeq(seq, 1, IF n < Len(seq) THEN n ELSE Len(seq))

\* variants of createPaginatedResponse: one that reports more results as soon
\* as a full page was fetched, one that trims the page without a limit too
createPaginatedResponseFullPage(items, limit) ==
    IF limit = 0
      THEN [data |-> items, cursor |-> NoCursor, hasMore |-> FALSE]
      ELSE LET hasMore == Len(items) >= limit
               data == IF hasMore THEN Take(items, limit) ELSE items
               last == data[Len(data)]
           IN  [data |-> data,
                cursor |-> IF hasMore /\ Len(data) > 0
                             THEN encodeCursor(
                                    [lastId |-> Field(last, "runId"),
                                     lastTimestamp |-> last.createdAt])
                             ELSE NoCursor,
                hasMore |-> hasMore]

createPaginatedResponseAlwaysTrim(items, limit) ==
    LET hasMore == Len(items) > limit
    IN  [data |-> IF hasMore THEN Take(items, limit) ELSE items,
         cursor |-> NoCursor,
         hasMore |-> hasMore]

createPaginatedResponse(items, limit) ==
    IF limit = 0
      THEN [data |-> items, cursor |-> NoCursor, hasMore |-> FALSE]
      ELSE LET hasMore == Len(items) > limit
               data == IF hasMore THEN Take(items, limit) ELSE items
               last == data[Len(data)]
           IN  [data |-> data,
                cursor |-> IF hasMore /\ Len(data) > 0
                             THEN encodeCursor(
                                    [lastId |->
                                       OrElse(Field(last, "runId"),
                                       OrElse(Field(last, "stepId"),
                                       OrElse(Field(last, "eventId"),
                                       OrElse(Field(last, "hookId"),
                                              EmptyString)))),
                                     lastTimestamp |-> last.createdAt])
                             ELSE NoCursor,
                hasMore |-> hasMore]

\* the pieces of SQL text the list operations assemble
AndToken == [kind |-> "AND"]
TrueClause == <<[kind |-> "1=1"]>>
EqClause(column, value) ==
    <<[kind |-> "=", column |-> column, value |-> value]>>

buildCursorWhereClause(cursor, timestampColumn, idColumn, order) ==
    IF ~IsSet(cursor)
      THEN [threw |-> FALSE, clause |-> <<>>]
      ELSE LET decoded == decodeCursor(cursor)
           IN  IF decoded.threw
                 THEN [threw |-> TRUE, clause |-> <<>>]
                 ELSE [threw |-> FALSE,
                       clause |->
                         <<AndToken,
                           [kind |-> "keyset",
                            cmp |-> IF order = "desc" THEN "<" ELSE ">",
                            timestampColumn |-> timestampColumn,
                            idColumn |-> idColumn,
                            lastTimestamp |->
                              Member(decoded.value, "lastTimestamp"),
                            lastId |-> Member(decoded.value, "lastId")]>>]

\* whereClauses.join(' AND ')
RECURSIVE JoinAnd(_)
JoinAnd(clauses) ==
    IF clauses = <<>> THEN <<>>
    ELSE IF Len(clauses) = 1 THEN clauses[1]
    ELSE clauses[1] \o <<AndToken>> \o JoinAnd(Tail(clauses))

\* the database parses a WHERE text made of conditions separated by AND
Parses(where) ==
    /\ Len(where) % 2 = 1
    /\ \A i \in 1..Len(where) : (where[i].kind = "AND") = (i % 2 = 0)

Holds(row, cond) ==
    CASE cond.kind = "1=1" -> TRUE
      [] cond.kind = "=" -> row[cond.column] = cond.value
      [] cond.kind = "keyset" ->
            LET ts == row[cond.timestampColumn]
                id == row[cond.idColumn]
            IN  IF cond.cmp = "<"
                  THEN ts < cond.lastTimestamp
                         \/ (ts = cond.lastTimestamp /\ id < cond.lastId)
                  ELSE ts > cond.lastTimestamp
                         \/ (ts = cond.lastTimestamp /\ id > cond.lastId)
      [] OTHER -> FALSE

\* ORDER BY created_at <direction>, <idColumn> <direction>
ComesFirst(a, b, idColumn, direction) ==
    IF direction = "ASC"
      THEN a.created_at < b.created_at
             \/ (a.created_at = b.created_at /\ a[idColumn] <= b[idColumn])
      ELSE a.created_at > b.created_at
             \/ (a.created_at = b.created_at /\ a[idColumn] >= b[idColumn])

RECURSIVE OrderBy(_, _, _)
OrderBy(rows, idColumn, direction) ==
    IF rows = {} THEN <<>>
    ELSE LET first == CHOOSE a \in rows :
                         \A b \in rows : ComesFirst(a, b, idColumn, direction)
         IN  <<first>> \o OrderBy(rows \ {first}, idColumn, direction)

\* env.DB.prepare(query).bind(...).all(): a text the database cannot parse
\* makes the call throw; fetchLimit 0 stands for no LIMIT
All(table, hasWhere, whereClauses, idColumn, direction, fetchLimit) ==
    LET where == JoinAnd(whereClauses)
    IN  IF hasWhere /\ ~Parses(where)
          THEN [threw |-> TRUE, results |-> <<>>]
          ELSE LET matching ==
                     {row \in table :
                        \A i \in 1..Len(where) :
                           where[i].kind # "AND" => Holds(row, where[i])}
                   sorted == OrderBy(matching, idColumn, direction)
               IN  [threw |-> FALSE,
                    results |-> IF fetchLimit = 0 THEN sorted
                                ELSE Take(sorted, fetchLimit)]

\* a timestamp column without value; as a number it is falsy
NullTime == 0

JsonUndefined == [t |-> "undefined", v |-> <<>>]

\* falsy values: value || []
JsFalsy(value) ==
    \/ value.t \in {"null", "undefined"}
    \/ value.t = "number" /\ value.v = 0
    \/ value.t = "string" /\ value.v = <<>>

\* the payloads of a run or step row, as rowToRun and rowToStep resolve them
ResolveRow(objects, row, resolveData) ==
    IF resolveData \in {Unset, "all"}
      THEN LET inputRef == createDataReference(row.input_type, row.input_data)
               outputRef == createDataReference(row.output_type,
                                                row.output_data)
               input == retrieveData(objects, inputRef)
               output == retrieveData(objects, outputRef)
           IN  [threw |-> input.threw \/ output.threw,
                input |-> IF JsFalsy(input.value) THEN JsonArray(<<>>)
                          ELSE input.value,
                output |-> output.value]
      ELSE [threw |-> FALSE, input |-> JsonArray(<<>>),
            output |-> JsonUndefined]

rowToRun(objects, row, resolveData) ==
    LET resolved == ResolveRow(objects, row, resolveData)
    IN  [runId |-> row.run_id, workflowName |-> row.workflow_name,
         status |-> row.status, input |-> resolved.input,
         output |-> resolved.output, createdAt |-> row.created_at,
         updatedAt |-> row.updated_at, startedAt |-> row.started_at,
         completedAt |-> row.completed_at]

rowToStep(objects, row, resolveData) ==
    LET resolved == ResolveRow(objects, row, resolveData)
    IN  [stepId |-> row.step_id, runId |-> row.run_id,
         status |-> row.status, input |-> resolved.input,
         output |-> resolved.output, attempt |-> row.attempt,
         createdAt |-> row.created_at, updatedAt |-> row.updated_at,
         startedAt |-> row.started_at, completedAt |-> row.completed_at]

\* the data of an event row, as rowToEvent resolves it: fetched only under
\* resolveData 'all' (the default), and left out when it is falsy
ResolveEventData(objects, row, resolveData) ==
    IF /\ row.event_data_type # SqlNull
       /\ row.event_data # NullText
       /\ resolveData \in {Unset, "all"}
      THEN LET dataRef == createDataReference(row.event_data_type,
                                              row.event_data)
               eventData == retrieveData(objects, dataRef)
           IN  [threw |-> eventData.threw,
                eventData |-> IF JsFalsy(eventData.value) THEN JsonUndefined
                              ELSE eventData.value]
      ELSE [threw |-> FALSE, eventData |-> JsonUndefined]

rowToEvent(objects, row, resolveData) ==
    [eventType |-> row.event_type, correlationId |-> row.correlation_id,
     eventData |-> ResolveEventData(objects, row, resolveData).eventData,
     runId |-> row.run_id, eventId |-> row.event_id,
     createdAt |-> row.created_at]

rowToHook(row) ==
    [hookId |-> row.hook_id, runId |-> row.run_id, token |-> row.token,
     createdAt |-> row.created_at]

\* the column each list operation names in its cursor clause and ORDER BY
IdColumn(op) ==
    CASE op = "runs.list" -> "run_id"
      [] op = "steps.list" -> "step_id"
      [] op \in {"events.list", "events.listByCorrelationId"} -> "event_id"
      [] op = "hooks.list" -> "hook_id"

\* a row whose payloads cannot be retrieved makes the conversion throw
RowThrows(op, row, resolveData) ==
    \/ /\ op \in {"runs.list", "steps.list"}
       /\ ResolveRow(bucket, row, resolveData).threw
    \/ /\ op \in {"events.list", "events.listByCorrelationId"}
       /\ ResolveEventData(bucket, row, resolveData).threw

RowToItem(op, row, resolveData) ==
    CASE op = "runs.list" -> rowToRun(bucket, row, resolveData)
      [] op = "steps.list" -> rowToStep(bucket, row, resolveData)
      [] op \in {"events.list", "events.listByCorrelationId"} ->
            rowToEvent(bucket, row, resolveData)
      [] op = "hooks.list" -> rowToHook(row)

Threw == [threw |-> TRUE, data |-> <<>>, cursor |-> NoCursor,
          hasMore |-> FALSE]

\* the part the five list operations share, from the cursor clause on
ListQuery(op, table, firstClauses, hasWhereAlways, defaultOrder, pagination, resolveData) ==
    LET idColumn == IdColumn(op)
        sortOrder == IF pagination.sortOrder # Unset
                       THEN pagination.sortOrder ELSE defaultOrder
        cursorClause == buildCursorWhereClause(pagination.cursor,
                                               "created_at", idColumn,
                                               sortOrder)
        whereClauses == IF cursorClause.clause # <<>>
                          THEN Append(firstClauses, cursorClause.clause)
                          ELSE firstClauses
        fetchLimit == IF pagination.limit # 0
                        THEN pagination.limit + 1 ELSE 0
        orderDirection == IF sortOrder = "asc" THEN "ASC" ELSE "DESC"
        result == All(table, hasWhereAlways \/ Len(whereClauses) > 0,
                      whereClauses, idColumn, orderDirection, fetchLimit)
    IN  IF cursorClause.threw \/ result.threw
          THEN Threw
        ELSE IF \E i \in 1..Len(result.results) :
                   RowThrows(op, result.results[i], resolveData)
          THEN Threw
          ELSE [threw |-> FALSE]
                 @@ createPaginatedResponse(
                      [i \in 1..Len(result.results) |->
                         RowToItem(op, result.results[i], resolveData)],
                      pagination.limit)

RunsList(params, pagination) ==
    ListQuery("runs.list", workflow_runs,
              <<TrueClause>>
                \o (IF params.workflowName # Unset
                      THEN <<EqClause("workflow_name", params.workflowName)>>
                      ELSE <<>>)
                \o (IF params.status # Unset
                      THEN <<EqClause("status", params.status)>>
                      ELSE <<>>),
              TRUE, "desc", pagination,
              params.resolveData)

StepsList(params, pagination) ==
    ListQuery("steps.list", workflow_steps,
              <<EqClause("run_id", params.runId)>>, TRUE, "desc", pagination,
              params.resolveData)

EventsList(params, pagination) ==
    ListQuery("events.list", workflow_events,
              <<EqClause("run_id", params.runId)>>, TRUE, "asc", pagination,
              params.resolveData)

EventsListByCorrelationId(params, pagination) ==
    ListQuery("events.listByCorrelationId", workflow_events,
              <<EqClause("correlation_id", params.correlationId)>>,
              TRUE, "asc", pagination,
              params.resolveData)

HooksList(params, pagination) ==
    ListQuery("hooks.list", workflow_hooks,
              IF params.runId # EmptyString
                THEN <<EqClause("run_id", params.runId)>> ELSE <<>>,
              FALSE, "desc", pagination,
              params.resolveData)

\* what the list operation called returns
Result(op, params, pagination) ==
    CASE op = "runs.list" -> RunsList(params, pagination)
      [] op = "steps.list" -> StepsList(params, pagination)
      [] op = "events.list" -> EventsList(params, pagination)
      [] op = "events.listByCorrelationId" ->
            EventsListByCorrelationId(params, pagination)
      [] op = "hooks.list" -> HooksList(params, pagination)

\* the identifier of an item of the operation's own kind
ItemId(op, item) ==
    CASE op = "runs.list" -> item.runId
      [] op = "steps.list" -> item.stepId
      [] op \in {"events.list", "events.listByCorrelationId"} -> item.eventId
      [] op = "hooks.list" -> item.hookId

NoParams == [runId |-> EmptyString, workflowName |-> Unset, status |-> Unset,
             correlationId |-> Unset, resolveData |-> Unset]

NoTraversal == [state |-> "none"]

NoReply == [op |-> "none"]

\* the identifiers in a response's data
DataIds(op, result) ==
    [i \in 1..Len(result.data) |-> ItemId(op, result.data[i])]

\* the caller takes the response of a list call: the first page of a new
\* traversal when it follows no cursor, the next page of its traversal
\* otherwise. It remembers the cursor it gave, the page it got and what the
\* same call without limit returned when it started.
Page(op, params, sortOrder, limit, cursor, follows, result) ==
    LET ids == DataIds(op, result)
        before == IF follows THEN trav.data ELSE <<>>
    IN  trav' = [state |-> IF result.threw THEN "failed"
                           ELSE IF ~IsSet(result.cursor) THEN "complete"
                           ELSE "open",
                 op |-> op, params |-> params, sortOrder |-> sortOrder,
                 limit |-> limit, given |-> cursor,
                 cursor |-> result.cursor,
                 page |-> ids,
                 data |-> before \o ids,
                 hasMore |-> result.hasMore,
                 pages |-> IF follows THEN trav.pages + 1 ELSE 1,
                 quiet |-> IF follows THEN trav.quiet ELSE TRUE,
                 atStart |->
                   IF follows THEN trav.atStart
                   ELSE DataIds(op, Result(op, params,
                                           [limit |-> 0,
                                            sortOrder |-> sortOrder,
                                            cursor |-> NoCursor]))]

\* a list call of the caller: the first of a new traversal, or the next of
\* the one in progress with the parameters it was started with
List(op, params, sortOrder, limit, continue) ==
    /\ IF continue
         THEN /\ trav.state = "open"
              /\ trav.op = op
              /\ trav.params = params
              /\ trav.sortOrder = sortOrder
              /\ trav.limit = limit
              /\ Page(op, params, sortOrder, limit, trav.cursor, TRUE,
                      Result(op, params, [limit |-> limit,
                                          sortOrder |-> sortOrder,
                                          cursor |-> trav.cursor]))
         ELSE /\ trav.state = "none"
              /\ Page(op, params, sortOrder, limit, NoCursor, FALSE,
                      Result(op, params, [limit |-> limit,
                                          sortOrder |-> sortOrder,
                                          cursor |-> NoCursor]))
    /\ UNCHANGED <<workflow_runs, workflow_steps, workflow_events,
                   workflow_hooks, now>>
    /\ reply' = NoReply
    /\ UNCHANGED nonListVars

\* cursor strings a caller may hand in: text that is no base64 of JSON, the
\* encodings of {lastId}, of {lastTimestamp}, of {} and of a number, and the
\* encoding of a complete cursor
GivenCursors ==
    << [kind |-> "garbage", value |-> NoJson],
       [kind |-> "base64json",
        value |-> [type |-> "object", members |-> [lastId |-> MaxId]]],
       [kind |-> "base64json",
        value |-> [type |-> "object", members |-> [lastTimestamp |-> MaxNow]]],
       [kind |-> "base64json",
        value |-> [type |-> "object", members |-> <<>>]],
       [kind |-> "base64json",
        value |-> [type |-> "number", members |-> <<>>]],
       encodeCursor([lastId |-> MaxId, lastTimestamp |-> MaxNow]) >>

\* the parameters each list operation is called with
ParamsOf(op) ==
    CASE op = "runs.list" ->
            {[NoParams EXCEPT !.workflowName = w] :
               w \in WorkflowNames \cup {Unset}}
      [] op \in {"steps.list", "events.list"} ->
            {[NoParams EXCEPT !.runId = r] : r \in Ids}
      [] op = "events.listByCorrelationId" ->
            {[NoParams EXCEPT !.correlationId = k] : k \in CorrelationIds}
      [] op = "hooks.list" ->
            {[NoParams EXCEPT !.runId = r] : r \in Ids \cup {EmptyString}}

\* a list call with a cursor string of the caller's own
ListGiven(op, params, sortOrder, limit, cursor) ==
    /\ trav.state = "none"
    /\ Page(op, params, sortOrder, limit, cursor, FALSE,
            Result(op, params, [limit |-> limit, sortOrder |-> sortOrder,
                                cursor |-> cursor]))
    /\ UNCHANGED <<workflow_runs, workflow_steps, workflow_events,
                   workflow_hooks, now>>
    /\ reply' = NoReply
    /\ UNCHANGED nonListVars

ListRuns(workflowName, status, sortOrder, limit, continue) ==
    List("runs.list",
         [NoParams EXCEPT !.workflowName = workflowName, !.status = status],
         sortOrder, limit, continue)

ListSteps(runId, sortOrder, limit, continue) ==
    List("steps.list", [NoParams EXCEPT !.runId = runId],
         sortOrder, limit, continue)

ListEvents(runId, sortOrder, limit, continue) ==
    List("events.list", [NoParams EXCEPT !.runId = runId],
         sortOrder, limit, continue)

ListEventsByCorrelationId(correlationId, sortOrder, limit, continue) ==
    List("events.listByCorrelationId",
         [NoParams EXCEPT !.correlationId = correlationId],
         sortOrder, limit, continue)

ListHooks(runId, sortOrder, limit, continue) ==
    List("hooks.list", [NoParams EXCEPT !.runId = runId],
         sortOrder, limit, continue)

\* a row inserted while a traversal is in progress; a traversal that has
\* ended is forgotten by the next step
Inserted ==
    trav' = IF trav.state = "open" THEN [trav EXCEPT !.quiet = FALSE]
            ELSE NoTraversal

\* the input of a run or step created without arguments
EmptyInput == JsonArray(<<>>)

\* the row create inserts for a run
NewRunRow(runId, workflowName, inputRef, time) ==
    [run_id |-> runId, workflow_name |-> workflowName, status |-> "pending",
     input_type |-> inputRef.type, input_data |-> inputRef.data,
     output_type |-> SqlNull, output_data |-> NullText,
     created_at |-> time, updated_at |-> time,
     started_at |-> NullTime, completed_at |-> NullTime]

\* a variant of the row below that counts attempts from the creation time
NewStepRowStarted(runId, stepId, inputRef, time) ==
    [step_id |-> stepId, run_id |-> runId, status |-> "running",
     attempt |-> time,
     input_type |-> inputRef.type, input_data |-> inputRef.data,
     output_type |-> SqlNull, output_data |-> NullText,
     created_at |-> time, updated_at |-> time,
     started_at |-> time, completed_at |-> NullTime]

\* the row create inserts for a step
NewStepRow(runId, stepId, inputRef, time) ==
    [step_id |-> stepId, run_id |-> runId, status |-> "pending",
     attempt |-> 1,
     input_type |-> inputRef.type, input_data |-> inputRef.data,
     output_type |-> SqlNull, output_data |-> NullText,
     created_at |-> time, updated_at |-> time,
     started_at |-> NullTime, completed_at |-> NullTime]

\* create of a run: the input is stored, then the row inserted; the run id
\* is a fresh one
CreateRun(runId, workflowName, input) ==
    /\ RowCount < MaxRows
    /\ \A row \in workflow_runs : row.run_id # runId
    /\ LET inputRef == storeData(bucket, input, "inputs", runId, "input",
                                 LargeDataThreshold)
       IN  /\ bucket' = inputRef.objects
           /\ workflow_runs' = workflow_runs \cup
                 {NewRunRow(runId, workflowName, inputRef.reference, now)}
    /\ Inserted
    /\ reply' = NoReply
    /\ UNCHANGED <<workflow_steps, now, upd, serial>>
    /\ UNCHANGED nonRepoVars

\* create of a step: the input is stored, then the row inserted; when the
\* caller's step id is taken the INSERT throws, after the input was stored
CreateStep(runId, stepId, input) ==
    /\ RowCount < MaxRows
    /\ LET inputRef == storeData(bucket, input, "step-inputs", stepId,
                                 "input", LargeDataThreshold)
       IN  /\ bucket' = inputRef.objects
           /\ IF \E row \in workflow_steps : row.step_id = stepId
                THEN UNCHANGED workflow_steps
                ELSE workflow_steps' = workflow_steps \cup
                       {NewStepRow(runId, stepId, inputRef.reference, now)}
    /\ Inserted
    /\ reply' = NoReply
    /\ UNCHANGED <<workflow_runs, now, upd, serial>>
    /\ UNCHANGED nonRepoVars

EventTypes == {"step_started", "hook_received"}

\* the row create inserts for an event
NewEventRow(runId, eventId, eventType, correlationId, dataRef, time) ==
    [event_id |-> eventId, run_id |-> runId, event_type |-> eventType,
     correlation_id |-> correlationId,
     event_data_type |-> dataRef.type, event_data |-> dataRef.data,
     created_at |-> time]

\* a variant of the INSERT below that replaces the rows of the table
ReplaceEventRows(rows, row) == {row}

\* INSERT INTO workflow_events
InsertEventRow(rows, row) == rows \cup {row}

\* an event without data, of which the list operations see the row only
InsertEvent(runId, eventId, correlationId) ==
    /\ \A row \in workflow_events : row.event_id # eventId
    /\ workflow_events' = InsertEventRow(workflow_events,
          NewEventRow(runId, eventId, "step_started", correlationId,
                      NoReference, now))
    /\ Inserted
    /\ UNCHANGED <<workflow_runs, workflow_steps, workflow_hooks, now>>
    /\ reply' = NoReply
    /\ UNCHANGED nonListVars

CreateEvent(runId, eventId, correlationId) ==
    /\ RowCount < MaxRows
    /\ InsertEvent(runId, eventId, correlationId)

\* an event created by another caller while a traversal is in progress
CreateEventDuringTraversal(runId, eventId, correlationId) ==
    /\ trav.state = "open"
    /\ InsertEvent(runId, eventId, correlationId)

\* the tokens of hooks, unique in the table
Tokens == Ids

CreateHook(runId, hookId, token) ==
    /\ RowCount < MaxRows
    /\ \A row \in workflow_hooks : row.hook_id # hookId /\ row.token # token
    /\ workflow_hooks' = workflow_hooks \cup
          {[hook_id |-> hookId, run_id |-> runId, token |-> token,
            created_at |-> now]}
    /\ Inserted
    /\ reply' = NoReply
    /\ UNCHANGED <<workflow_runs, workflow_steps, workflow_events, now>>
    /\ UNCHANGED nonListVars

\* time passes
Tick ==
    /\ now < MaxNow
    /\ now' = now + 1
    /\ trav' = IF trav.state = "open" THEN trav ELSE NoTraversal
    /\ UNCHANGED <<workflow_runs, workflow_steps, workflow_events,
                   workflow_hooks>>
    /\ reply' = NoReply
    /\ UNCHANGED nonListVars

\* inputs a run or step is created with: one stored inline, one in the bucket
RunInputs == <<EmptyInput, JsonArray(<<JsonNumber(1), JsonNumber(2)>>)>>

\* outputs an update carries: none, one stored inline, one in the bucket
RunOutputs == <<JsonUndefined, JsonNumber(7), JsonString(<<"d", "o", "n", "e">>)>>

NoItem == [status |-> Unset]

Failure(error) == [threw |-> TRUE, error |-> error, item |-> NoItem]

Success(item) == [threw |-> FALSE, error |-> Unset, item |-> item]

\* a variant of runs.get that takes a missing run for one not yet started
getRunOrBlank(objects, rows, id, resolveData) ==
    LET found == {row \in rows : row.run_id = id}
    IN  IF found = {}
          THEN Success([runId |-> id, status |-> Unset,
                        startedAt |-> NullTime, completedAt |-> NullTime])
          ELSE Success(rowToRun(objects, CHOOSE row \in found : TRUE,
                                resolveData))

\* runs.get over the given table and bucket
getRun(objects, rows, id, resolveData) ==
    LET found == {row \in rows : row.run_id = id}
    IN  IF found = {} THEN Failure("Workflow run not found")
        ELSE LET row == CHOOSE row \in found : TRUE
             IN  IF ResolveRow(objects, row, resolveData).threw
                   THEN Failure("R2 object not found")
                   ELSE Success(rowToRun(objects, row, resolveData))

\* a variant of steps.get that does not look at the run id
getStepOfAnyRun(objects, rows, runId, stepId, resolveData) ==
    LET found == {row \in rows : row.step_id = stepId}
    IN  IF found = {} THEN Failure("Step not found")
        ELSE LET row == CHOOSE row \in found : TRUE
             IN  IF ResolveRow(objects, row, resolveData).threw
                   THEN Failure("R2 object not found")
                   ELSE Success(rowToStep(objects, row, resolveData))

\* steps.get over the given table and bucket
getStep(objects, rows, runId, stepId, resolveData) ==
    LET found == {row \in rows : row.step_id = stepId}
    IN  IF found = {} THEN Failure("Step not found")
        ELSE LET row == CHOOSE row \in found : TRUE
             IN  IF runId # EmptyString /\ row.run_id # runId
                   THEN Failure("Step does not belong to run")
                 ELSE IF ResolveRow(objects, row, resolveData).threw
                   THEN Failure("R2 object not found")
                   ELSE Success(rowToStep(objects, row, resolveData))

\* what a call of the run and step storage leaves alone when it writes
\* nothing
ReadOnly ==
    /\ trav' = NoTraversal
    /\ UNCHANGED <<workflow_runs, workflow_steps, bucket, now>>
    /\ UNCHANGED nonRepoVars

GetRun(id, resolveData) ==
    /\ reply' = [op |-> "runs.get", id |-> id, resolveData |-> resolveData]
                   @@ getRun(bucket, workflow_runs, id, resolveData)
    /\ UNCHANGED <<upd, serial>>
    /\ ReadOnly

GetStep(runId, stepId, resolveData) ==
    /\ reply' = [op |-> "steps.get", id |-> stepId, runId |-> runId,
                 resolveData |-> resolveData]
                   @@ getStep(bucket, workflow_steps, runId, stepId,
                              resolveData)
    /\ UNCHANGED <<upd, serial>>
    /\ ReadOnly

\* a variant of the test below that stamps on every update to running
StampsStartedAlways(status, startedAt) == status = "running"

\* update stamps started_at: the status given is running and the run it
\* read had no start time
StampsStarted(status, startedAt) ==
    status = "running" /\ startedAt = NullTime

\* a variant of the test below that stamps on every terminal status
StampsCompletedAlways(status, completedAt) ==
    status \in {"completed", "failed", "cancelled"}

\* update stamps completed_at: the status given is terminal and the run it
\* read had no completion time
StampsCompleted(status, completedAt) ==
    status \in {"completed", "failed", "cancelled"} /\ completedAt = NullTime

\* the first half of runs.update, up to its first write: the run is read and
\* the time taken; when the run cannot be read the call fails here
BeginUpdate(c, op, id, data, resolveData) ==
    /\ upd[c].pc = "idle"
    /\ LET current == getRun(bucket, workflow_runs, id, Unset)
       IN  IF current.threw
             THEN /\ reply' = [op |-> op, id |-> id,
                               resolveData |-> resolveData] @@ current
                  /\ UNCHANGED <<upd, serial>>
             ELSE /\ reply' = NoReply
                  /\ upd' = [upd EXCEPT ![c] =
                               [pc |-> "write", op |-> op, id |-> id,
                                data |-> data, resolveData |-> resolveData,
                                startedAt |-> current.item.startedAt,
                                completedAt |-> current.item.completedAt,
                                now |-> now]]
                  /\ serial' = (serial /\ \A other \in Updaters \ {c} :
                                             upd[other].pc = "idle")
    /\ ReadOnly

UpdateRun(c, id, status, output) ==
    BeginUpdate(c, "runs.update", id, [status |-> status, output |-> output],
                Unset)

CancelRun(c, id, resolveData) ==
    BeginUpdate(c, "runs.cancel", id,
                [status |-> "cancelled", output |-> JsonUndefined],
                resolveData)

PauseRun(c, id, resolveData) ==
    BeginUpdate(c, "runs.pause", id,
                [status |-> "paused", output |-> JsonUndefined], resolveData)

ResumeRun(c, id, resolveData) ==
    BeginUpdate(c, "runs.resume", id,
                [status |-> "running", output |-> JsonUndefined], resolveData)

\* the statuses the workflow_runs table admits
RunStatuses ==
    {"pending", "running", "completed", "failed", "cancelled", "paused"}

\* a variant of the row below in which a finished run keeps its status
UpdatedRunOnceFinished(row, u, hasOutput, outputRef) ==
    [row EXCEPT
       !.updated_at = u.now,
       !.status = IF row.status \in {"completed", "failed", "cancelled"}
                    THEN @ ELSE u.data.status]

\* the row an update writes in place of the one it finds
UpdatedRun(row, u, hasOutput, outputRef) ==
    [row EXCEPT
       !.updated_at = u.now,
       !.status = IF u.data.status # Unset THEN u.data.status ELSE @,
       !.started_at = IF StampsStarted(u.data.status, u.startedAt)
                        THEN u.now ELSE @,
       !.completed_at = IF StampsCompleted(u.data.status, u.completedAt)
                          THEN u.now ELSE @,
       !.output_type = IF hasOutput THEN outputRef.type ELSE @,
       !.output_data = IF hasOutput THEN outputRef.data ELSE @]

\* the second half of runs.update: the output is stored, the row updated and
\* the run read again; cancel, pause and resume read it once more with the
\* caller's parameters
FinishUpdate(c) ==
    /\ upd[c].pc = "write"
    /\ LET u == upd[c]
           hasOutput == u.data.output.t # "undefined"
           outcome == IF hasOutput
                        THEN storeData(bucket, u.data.output, "outputs",
                                       u.id, "output", LargeDataThreshold)
                        ELSE [reference |-> NoReference, put |-> FALSE,
                              objects |-> bucket]
           rows == {IF row.run_id = u.id
                      THEN UpdatedRun(row, u, hasOutput, outcome.reference)
                      ELSE row : row \in workflow_runs}
           updated == getRun(outcome.objects, rows, u.id, Unset)
           result == IF u.op = "runs.update" \/ updated.threw THEN updated
                     ELSE getRun(outcome.objects, rows, u.id, u.resolveData)
       IN  /\ workflow_runs' = rows
           /\ bucket' = outcome.objects
           /\ reply' = [op |-> u.op, id |-> u.id,
                        resolveData |-> u.resolveData] @@ result
    /\ upd' = [upd EXCEPT ![c] = IdleUpdate]
    /\ trav' = NoTraversal
    /\ UNCHANGED <<serial, workflow_steps, now>>
    /\ UNCHANGED nonRepoVars

\* hooks.get and hooks.getByToken over the given table
getHook(rows, hookId) ==
    LET found == {row \in rows : row.hook_id = hookId}
    IN  IF found = {} THEN Failure("Hook not found")
        ELSE Success(rowToHook(CHOOSE row \in found : TRUE))

getHookByToken(rows, token) ==
    LET found == {row \in rows : row.token = token}
    IN  IF found = {} THEN Failure("Hook not found for token")
        ELSE Success(rowToHook(CHOOSE row \in found : TRUE))

\* what a call of the hook storage leaves alone besides the hooks table
HookFrame ==
    /\ trav' = NoTraversal
    /\ UNCHANGED <<workflow_runs, workflow_steps, workflow_events, now>>
    /\ UNCHANGED nonListVars

GetHook(hookId) ==
    /\ reply' = [op |-> "hooks.get", id |-> hookId, resolveData |-> Unset]
                   @@ getHook(workflow_hooks, hookId)
    /\ UNCHANGED workflow_hooks
    /\ HookFrame

GetHookByToken(token) ==
    /\ reply' = [op |-> "hooks.getByToken", id |-> token,
                 resolveData |-> Unset]
                   @@ getHookByToken(workflow_hooks, token)
    /\ UNCHANGED workflow_hooks
    /\ HookFrame

\* a variant of the deletion below that keeps the row
DeleteHookKept(rows, hookId) == rows

\* DELETE FROM workflow_hooks WHERE hook_id = ?
DeleteHook(rows, hookId) == {row \in rows : row.hook_id # hookId}

\* dispose: the hook is read, then its row deleted, and the hook read is
\* returned
DisposeHook(hookId) ==
    /\ LET hook == getHook(workflow_hooks, hookId)
       IN  /\ reply' = [op |-> "hooks.dispose", id |-> hookId,
                        resolveData |-> Unset] @@ hook
           /\ workflow_hooks' =
                 IF hook.threw THEN workflow_hooks
                 ELSE DeleteHook(workflow_hooks, hookId)
    /\ HookFrame

\* the statuses the workflow_steps table admits
StepStatuses == {"pending", "running", "completed", "failed", "cancelled"}

\* no attempt given in an update of a step
NoAttempt == <<>>

\* steps.update stamps completed_at: the status given is completed or failed
\* and the step it read had no completion time
StampsStepCompleted(status, completedAt) ==
    status \in {"completed", "failed"} /\ completedAt = NullTime

\* the first half of steps.update, up to its first write: the step is read
\* under the run id given and the time taken; when the step cannot be read
\* the call fails here
BeginStepUpdate(c, runId, stepId, data) ==
    /\ upd[c].pc = "idle"
    /\ LET current == getStep(bucket, workflow_steps, runId, stepId, Unset)
       IN  IF current.threw
             THEN /\ reply' = [op |-> "steps.update", id |-> stepId,
                               runId |-> runId, resolveData |-> Unset]
                                 @@ current
                  /\ UNCHANGED <<upd, serial>>
             ELSE /\ reply' = NoReply
                  /\ upd' = [upd EXCEPT ![c] =
                               [pc |-> "writeStep", op |-> "steps.update",
                                id |-> stepId, runId |-> runId,
                                data |-> data, resolveData |-> Unset,
                                startedAt |-> current.item.startedAt,
                                completedAt |-> current.item.completedAt,
                                now |-> now]]
                  /\ serial' = (serial /\ \A other \in Updaters \ {c} :
                                             upd[other].pc = "idle")
    /\ ReadOnly

UpdateStep(c, runId, stepId, status, output, attempt) ==
    BeginStepUpdate(c, runId, stepId,
                    [status |-> status, output |-> output,
                     attempt |-> attempt])

\* the row an update of a step writes in place of the one it finds
UpdatedStep(row, u, hasOutput, outputRef) ==
    [row EXCEPT
       !.updated_at = u.now,
       !.status = IF u.data.status # Unset THEN u.data.status ELSE @,
       !.started_at = IF StampsStarted(u.data.status, u.startedAt)
                        THEN u.now ELSE @,
       !.completed_at = IF StampsStepCompleted(u.data.status, u.completedAt)
                          THEN u.now ELSE @,
       !.output_type = IF hasOutput THEN outputRef.type ELSE @,
       !.output_data = IF hasOutput THEN outputRef.data ELSE @,
       !.attempt = IF u.data.attempt # NoAttempt THEN u.data.attempt[1]
                   ELSE @]

\* the second half of steps.update: the output is stored, the row updated
\* and the step read again under the run id given
FinishStepUpdate(c) ==
    /\ upd[c].pc = "writeStep"
    /\ LET u == upd[c]
           hasOutput == u.data.output.t # "undefined"
           outcome == IF hasOutput
                        THEN storeData(bucket, u.data.output, "step-outputs",
                                       u.id, "output", LargeDataThreshold)
                        ELSE [reference |-> NoReference, put |-> FALSE,
                              objects |-> bucket]
           rows == {IF row.step_id = u.id
                      THEN UpdatedStep(row, u, hasOutput, outcome.reference)
                      ELSE row : row \in workflow_steps}
       IN  /\ workflow_steps' = rows
           /\ bucket' = outcome.objects
           /\ reply' = [op |-> u.op, id |-> u.id, runId |-> u.runId,
                        resolveData |-> u.resolveData]
                          @@ getStep(outcome.objects, rows, u.runId, u.id,
                                     Unset)
    /\ upd' = [upd EXCEPT ![c] = IdleUpdate]
    /\ trav' = NoTraversal
    /\ UNCHANGED <<serial, workflow_runs, now>>
    /\ UNCHANGED nonRepoVars

\* time passes for the callers of the run storage
RunTick ==
    /\ now < MaxNow
    /\ now' = now + 1
    /\ reply' = NoReply
    /\ UNCHANGED <<upd, serial>>
    /\ trav' = NoTraversal
    /\ UNCHANGED <<workflow_runs, workflow_steps, bucket>>
    /\ UNCHANGED nonRepoVars

RepoInit ==
    /\ upd = [c \in Updaters |-> IdleUpdate]
    /\ serial = TRUE
    /\ reply = NoReply

PageInit ==
    /\ workflow_runs = {}
    /\ workflow_steps = {}
    /\ workflow_events = {}
    /\ workflow_hooks = {}
    /\ now = 1
    /\ trav = NoTraversal

PageNext ==
    \/ \E id \in Ids, w \in WorkflowNames : CreateRun(id, w, EmptyInput)
    \/ \E r \in Ids, id \in Ids : CreateStep(r, id, EmptyInput)
    \/ \E r \in Ids, id \in Ids, c \in CorrelationIds : CreateEvent(r, id, c)
    \/ \E r \in Ids, id \in Ids : CreateHook(r, id, id)
    \/ Tick
    \/ \E w \in WorkflowNames \cup {Unset}, s \in {Unset, "pending"},
          o \in SortOrders, l \in Limits, c \in BOOLEAN :
          ListRuns(w, s, o, l, c)
    \/ \E r \in Ids, o \in SortOrders, l \in Limits, c \in BOOLEAN :
          ListSteps(r, o, l, c)
    \/ \E r \in Ids, o \in SortOrders, l \in Limits, c \in BOOLEAN :
          ListEvents(r, o, l, c)
    \/ \E k \in CorrelationIds, o \in SortOrders, l \in Limits,
          c \in BOOLEAN : ListEventsByCorrelationId(k, o, l, c)
    \/ \E r \in Ids \cup {EmptyString}, o \in SortOrders, l \in Limits,
          c \in BOOLEAN : ListHooks(r, o, l, c)

\* one run, updated, cancelled, paused and resumed by callers whose calls may
\* overlap
RunNext ==
    \/ CreateRun(MaxId, "wf1", EmptyInput)
    \/ \E c \in Updaters, s \in {Unset, "running", "completed", "failed"} :
          UpdateRun(c, MaxId, s, JsonUndefined)
    \/ \E c \in Updaters : CancelRun(c, MaxId, Unset)
    \/ \E c \in Updaters : PauseRun(c, MaxId, Unset)
    \/ \E c \in Updaters : ResumeRun(c, MaxId, Unset)
    \/ \E c \in Updaters : FinishUpdate(c)
    \/ RunTick

\* one step, updated by callers whose calls may overlap
StepNext ==
    \/ CreateStep(MaxId, MaxId, EmptyInput)
    \/ \E c \in Updaters, s \in StepStatuses \cup {Unset} :
          UpdateStep(c, MaxId, MaxId, s, JsonUndefined, NoAttempt)
    \/ \E c \in Updaters : FinishStepUpdate(c)
    \/ RunTick

\* one run and one step, each set to running or completed by callers whose
\* calls may overlap
RaceNext ==
    \/ CreateRun(MaxId, "wf1", EmptyInput)
    \/ CreateStep(MaxId, MaxId, EmptyInput)
    \/ \E c \in Updaters, s \in {"running", "completed"} :
          UpdateRun(c, MaxId, s, JsonUndefined)
    \/ \E c \in Updaters, s \in {"running", "completed"} :
          UpdateStep(c, MaxId, MaxId, s, JsonUndefined, NoAttempt)
    \/ \E c \in Updaters : FinishUpdate(c)
    \/ \E c \in Updaters : FinishStepUpdate(c)
    \/ RunTick

\* one run and one step, set to every status in turn by one caller
TransitionNext ==
    \/ CreateRun(MaxId, "wf1", EmptyInput)
    \/ CreateStep(MaxId, MaxId, EmptyInput)
    \/ \E s \in RunStatuses : UpdateRun(1, MaxId, s, JsonUndefined)
    \/ \E s \in StepStatuses :
          UpdateStep(1, MaxId, MaxId, s, JsonUndefined, NoAttempt)
    \/ FinishUpdate(1)
    \/ FinishStepUpdate(1)
    \/ RunTick

\* a run, a step and a hook that may or may not exist yet, and calls that
\* address them and identifiers that never exist
NotFoundNext ==
    \/ CreateRun(MaxId, "wf1", EmptyInput)
    \/ CreateStep(MaxId, MaxId, EmptyInput)
    \/ CreateHook(MaxId, MaxId, MaxId)
    \/ \E id \in Ids : GetRun(id, Unset)
    \/ \E id \in Ids, i \in 1..Len(RunOutputs) :
          UpdateRun(1, id, "completed", RunOutputs[i])
    \/ \E id \in Ids : CancelRun(1, id, Unset)
    \/ \E id \in Ids : PauseRun(1, id, Unset)
    \/ \E id \in Ids : ResumeRun(1, id, Unset)
    \/ FinishUpdate(1)
    \/ \E id \in Ids : GetStep(EmptyString, id, Unset)
    \/ \E id \in Ids, i \in 1..Len(RunOutputs) :
          UpdateStep(1, MaxId, id, "completed", RunOutputs[i], NoAttempt)
    \/ FinishStepUpdate(1)
    \/ \E id \in Ids : GetHook(id)
    \/ \E token \in Tokens : GetHookByToken(token)
    \/ \E id \in Ids : DisposeHook(id)

\* one step of one run, read and updated under the run id of its run, under
\* another run id and under the empty run id
OwnerNext ==
    \/ CreateStep(MaxId, MaxId, EmptyInput)
    \/ \E r \in Ids \cup {EmptyString} : GetStep(r, MaxId, Unset)
    \/ \E r \in Ids \cup {EmptyString}, s \in {Unset, "running", "failed"},
          i \in 1..Len(RunOutputs), a \in {NoAttempt, <<MaxId>>} :
          UpdateStep(1, r, MaxId, s, RunOutputs[i], a)
    \/ FinishStepUpdate(1)
    \/ RunTick

\* events.create: the data is stored, the row inserted under a generated
\* identifier and read back, and the event converted from the row read
EventsCreate(runId, eventId, eventType, correlationId, eventData, resolveData) ==
    /\ RowCount < MaxRows
    /\ \A row \in workflow_events : row.event_id # eventId
    /\ LET outcome == IF eventData # JsonUndefined
                        THEN storeData(bucket, eventData, "event-data",
                                       eventId, "data", LargeDataThreshold)
                        ELSE [reference |-> NoReference, put |-> FALSE,
                              objects |-> bucket]
           row == NewEventRow(runId, eventId, eventType, correlationId,
                              outcome.reference, now)
       IN  /\ bucket' = outcome.objects
           /\ workflow_events' = InsertEventRow(workflow_events, row)
           /\ reply' = [op |-> "events.create", id |-> eventId]
                          @@ Success(rowToEvent(outcome.objects, row,
                                                resolveData))
    /\ Inserted
    /\ UNCHANGED <<workflow_runs, workflow_steps, workflow_hooks, now>>
    /\ UNCHANGED <<coordVars, streamVars, queueVars, stored, retrieved, upd, serial>>

\* events created and listed while runs, steps and hooks are created, read,
\* updated and disposed by one caller at a time
EventNext ==
    \/ \E r \in Ids, id \in Ids :
          \/ EventsCreate(r, id, "step_started", Unset, JsonUndefined, Unset)
          \/ EventsCreate(r, id, "hook_received", "c1", RunOutputs[3], Unset)
    \/ CreateRun(MaxId, "wf1", EmptyInput)
    \/ CreateStep(MaxId, MaxId, EmptyInput)
    \/ CreateHook(MaxId, MaxId, MaxId)
    \/ GetRun(MaxId, Unset)
    \/ GetStep(MaxId, MaxId, Unset)
    \/ UpdateRun(1, MaxId, "running", JsonUndefined)
    \/ CancelRun(1, MaxId, Unset)
    \/ FinishUpdate(1)
    \/ UpdateStep(1, MaxId, MaxId, "running", JsonUndefined, NoAttempt)
    \/ FinishStepUpdate(1)
    \/ GetHook(MaxId)
    \/ GetHookByToken(MaxId)
    \/ DisposeHook(MaxId)
    \/ \E r \in Ids : ListEvents(r, Unset, 0, FALSE)
    \/ ListEventsByCorrelationId("c1", Unset, 0, FALSE)
    \/ Tick

\* inputs a step is created with: none, and two that go to the bucket
StepInputs ==
    <<EmptyInput, JsonArray(<<JsonNumber(1), JsonNumber(2)>>),
      JsonArray(<<JsonNumber(2), JsonNumber(1)>>)>>

\* one run and one step id, with inputs and outputs of either size, created,
\* read with and without their payloads and updated by one caller at a time
PayloadNext ==
    \/ \E i \in 1..Len(RunInputs) : CreateRun(MaxId, "wf1", RunInputs[i])
    \/ \E i \in 1..Len(StepInputs) : CreateStep(MaxId, MaxId, StepInputs[i])
    \/ \E r \in {Unset, "all", "none"} : GetRun(MaxId, r)
    \/ \E r \in {Unset, "all", "none"} : GetStep(MaxId, MaxId, r)
    \/ \E i \in 1..Len(RunOutputs) :
          UpdateRun(1, MaxId, "completed", RunOutputs[i])
    \/ FinishUpdate(1)
    \/ \E i \in 1..Len(RunOutputs) :
          UpdateStep(1, MaxId, MaxId, "completed", RunOutputs[i], NoAttempt)
    \/ FinishStepUpdate(1)

\* a run, a step and events with payloads of either size, created and
\* updated by one caller at a time
BlobNext ==
    \/ \E i \in 1..Len(RunInputs) : CreateRun(MaxId, "wf1", RunInputs[i])
    \/ \E i \in 1..Len(StepInputs) : CreateStep(MaxId, MaxId, StepInputs[i])
    \/ \E id \in Ids, i \in 1..Len(RunOutputs) :
          EventsCreate(MaxId, id, "step_started", Unset, RunOutputs[i], Unset)
    \/ \E i \in 1..Len(RunOutputs) :
          UpdateRun(1, MaxId, "completed", RunOutputs[i])
    \/ FinishUpdate(1)
    \/ \E i \in 1..Len(RunOutputs) :
          UpdateStep(1, MaxId, MaxId, "completed", RunOutputs[i], NoAttempt)
    \/ FinishStepUpdate(1)
    \/ GetRun(MaxId, Unset)
    \/ GetStep(MaxId, MaxId, Unset)

\* hooks created, read by id and by token, listed and disposed
HookNext ==
    \/ \E id \in Ids, token \in Tokens : CreateHook(MaxId, id, token)
    \/ \E id \in Ids : GetHook(id)
    \/ \E token \in Tokens : GetHookByToken(token)
    \/ \E id \in Ids : DisposeHook(id)
    \/ \E r \in {EmptyString, MaxId}, o \in SortOrders :
          ListHooks(r, o, 0, FALSE)
    \/ Tick

\* one run and one step with inputs and outputs of either size, created,
\* read, listed and updated by one caller at a time while objects may
\* disappear from the bucket
ResolveNext ==
    \/ \E i \in 1..Len(RunInputs) : CreateRun(MaxId, "wf1", RunInputs[i])
    \/ \E i \in 1..Len(RunInputs) : CreateStep(MaxId, MaxId, RunInputs[i])
    \/ \E id \in Ids, r \in {Unset, "none"} : GetRun(id, r)
    \/ \E run \in {EmptyString, 1, MaxId}, r \in {Unset, "none"} :
          GetStep(run, MaxId, r)
    \/ ListRuns(Unset, Unset, "desc", 0, FALSE)
    \/ \E r \in Ids : ListSteps(r, "desc", 0, FALSE)
    \/ \E i \in 1..Len(RunOutputs) :
          UpdateRun(1, MaxId, "completed", RunOutputs[i])
    \/ \E r \in {Unset, "none"} : CancelRun(1, MaxId, r)
    \/ FinishUpdate(1)
    \/ \E key \in RunKeys : ObjectLost(key)

\* events listed page by page while events are being created
InsertNext ==
    \/ \E r \in Ids, id \in Ids, c \in CorrelationIds : CreateEvent(r, id, c)
    \/ \E r \in Ids, id \in MoreIds, c \in CorrelationIds :
          CreateEventDuringTraversal(r, id, c)
    \/ Tick
    \/ \E r \in Ids, o \in SortOrders, l \in Limits, c \in BOOLEAN :
          ListEvents(r, o, l, c)
    \/ \E k \in CorrelationIds, o \in SortOrders, l \in Limits,
          c \in BOOLEAN : ListEventsByCorrelationId(k, o, l, c)

\* list calls with cursor strings of the caller's own
CursorNext ==
    \/ \E id \in Ids, w \in WorkflowNames : CreateRun(id, w, EmptyInput)
    \/ \E r \in Ids, id \in Ids : CreateStep(r, id, EmptyInput)
    \/ \E r \in Ids, id \in Ids, c \in CorrelationIds : CreateEvent(r, id, c)
    \/ \E r \in Ids, id \in Ids : CreateHook(r, id, id)
    \/ Tick
    \/ \E op \in ListOps, l \in {0, MaxLimit},
          i \in 1..Len(GivenCursors) :
          \E params \in ParamsOf(op) :
             ListGiven(op, params, Unset, l, GivenCursors[i])

(***************************************************************************)
(* The streamer: createStreamer(env) over table streams and the objects    *)
(* of the bucket under streams/.  Every await of a call is a step, so that *)
(* calls overlap as the runtime lets them.  Chunks are taken as the bytes  *)
(* they are converted to.                                                  *)
(***************************************************************************)
StreamCallers == 1..MaxStreamCallers
StreamNames == {"s1"}
Chunks == {<<"a">>, <<"b">>}
NoChunk == <<>>

getStreamKey(name) == <<"streams/", name>>

IdleStream == [pc |-> "idle", alone |-> TRUE]

InCall(call) == call.pc \notin {"idle", "done"}

\* env.WORKFLOW_STORAGE.get(key) followed by arrayBuffer(): the bytes of the
\* object, none when there is no object
StreamBytes(objects, key) ==
    IF \E object \in objects : object.key = key
      THEN (CHOOSE object \in objects : object.key = key).bytes
      ELSE <<>>

\* env.WORKFLOW_STORAGE.put(key, bytes)
StreamPutObject(objects, key, bytes) ==
    {object \in objects : object.key # key}
        \cup {[key |-> key, bytes |-> bytes]}

\* a variant of the concatenation below that keeps the new chunk only
ChunkOnly(existingData, data) == data

\* existing data and the new chunk, concatenated
Combined(existingData, data) == existingData \o data

NewStreamRow(name, time) ==
    [stream_name |-> name, r2_key |-> getStreamKey(name), is_closed |-> 0,
     created_at |-> time, closed_at |-> NullTime]

\* UPDATE streams SET is_closed = 1, closed_at = ?
Closed(row, time) == [row EXCEPT !.is_closed = 1, !.closed_at = time]

\* the call of a caller ends
StreamDone(call, threw, error, body) ==
    [pc |-> "done", op |-> call.op, name |-> call.name, chunk |-> call.chunk,
     startIndex |-> call.startIndex, alone |-> call.alone,
     wasClosed |-> call.wasClosed, threw |-> threw, error |-> error,
     body |-> body]

\* a variant of the operator below in which closeStream does not look at
\* is_closed
WithMetadataUnchecked(call, metadata) ==
    LET next == [call EXCEPT !.metadata = metadata]
    IN  CASE call.op = "writeToStream" ->
               IF metadata.is_closed = 1
                 THEN StreamDone(call, TRUE, "Stream is closed", <<>>)
                 ELSE [next EXCEPT !.pc = "get"]
          [] call.op = "closeStream" -> [next EXCEPT !.pc = "update"]
          [] call.op = "readFromStream" -> [next EXCEPT !.pc = "read"]

\* what a call does once it has the metadata of its stream
WithMetadata(call, metadata) ==
    LET next == [call EXCEPT !.metadata = metadata]
    IN  CASE call.op = "writeToStream" ->
               IF metadata.is_closed = 1
                 THEN StreamDone(call, TRUE, "Stream is closed", <<>>)
                 ELSE [next EXCEPT !.pc = "get"]
          [] call.op = "closeStream" ->
               IF metadata.is_closed = 1
                 THEN StreamDone(call, FALSE, Unset, <<>>)
                 ELSE [next EXCEPT !.pc = "update"]
          [] call.op = "readFromStream" -> [next EXCEPT !.pc = "read"]

\* the calls of the other callers, which a new call overlaps
Overlapped(c) ==
    [d \in StreamCallers \ {c} |->
       IF InCall(sc[d]) THEN [sc[d] EXCEPT !.alone = FALSE] ELSE sc[d]]

\* a call begins with getOrCreateStreamMetadata, whose first statement is the
\* SELECT of the row of the stream
StreamCall(c, op, name, chunk, startIndex) ==
    /\ ~InCall(sc[c])
    /\ LET existing == {row \in streams : row.stream_name = name}
           call == [pc |-> "insert", op |-> op, name |-> name,
                    chunk |-> chunk, startIndex |-> startIndex,
                    alone |-> \A d \in StreamCallers \ {c} : ~InCall(sc[d]),
                    wasClosed |-> \E row \in existing : row.is_closed = 1,
                    metadata |-> NewStreamRow(name, NullTime),
                    existingData |-> <<>>]
       IN  sc' = [d \in StreamCallers |->
                    IF d # c THEN Overlapped(c)[d]
                    ELSE IF existing = {} THEN call
                    ELSE WithMetadata(call, CHOOSE row \in existing : TRUE)]
    /\ UNCHANGED <<streams, stream_objects, now>>
    /\ UNCHANGED nonStreamVars

WriteToStream(c, name, chunk) ==
    /\ Len(StreamBytes(stream_objects, getStreamKey(name))) < MaxStreamLen
    /\ StreamCall(c, "writeToStream", name, chunk, 0)

CloseStream(c, name) == StreamCall(c, "closeStream", name, NoChunk, 0)

ReadFromStream(c, name, startIndex) ==
    StreamCall(c, "readFromStream", name, NoChunk, startIndex)

\* the INSERT of getOrCreateStreamMetadata, for a stream the SELECT did not
\* find; it fails on the primary key when the row has come meanwhile
StreamInsert(c) ==
    /\ sc[c].pc = "insert"
    /\ IF \E row \in streams : row.stream_name = sc[c].name
         THEN /\ sc' = [sc EXCEPT ![c] =
                          StreamDone(sc[c], TRUE, "UNIQUE constraint", <<>>)]
              /\ UNCHANGED streams
         ELSE /\ streams' = streams \cup {NewStreamRow(sc[c].name, now)}
              /\ sc' = [sc EXCEPT ![c] =
                          WithMetadata(sc[c], NewStreamRow(sc[c].name, now))]
    /\ UNCHANGED <<stream_objects, now>>
    /\ UNCHANGED nonStreamVars

\* writeToStream reads the object of the stream
StreamGet(c) ==
    /\ sc[c].pc = "get"
    /\ sc' = [sc EXCEPT ![c].pc = "put",
                        ![c].existingData =
                           StreamBytes(stream_objects, sc[c].metadata.r2_key)]
    /\ UNCHANGED <<streams, stream_objects, now>>
    /\ UNCHANGED nonStreamVars

\* writeToStream writes the object back, with the chunk at its end
StreamPut(c) ==
    /\ sc[c].pc = "put"
    /\ stream_objects' =
          StreamPutObject(stream_objects, sc[c].metadata.r2_key,
                          Combined(sc[c].existingData, sc[c].chunk))
    /\ sc' = [sc EXCEPT ![c] = StreamDone(sc[c], FALSE, Unset, <<>>)]
    /\ UNCHANGED <<streams, now>>
    /\ UNCHANGED nonStreamVars

\* closeStream marks the row closed
StreamUpdate(c) ==
    /\ sc[c].pc = "update"
    /\ streams' = {IF row.stream_name = sc[c].name THEN Closed(row, now)
                   ELSE row : row \in streams}
    /\ sc' = [sc EXCEPT ![c] = StreamDone(sc[c], FALSE, Unset, <<>>)]
    /\ UNCHANGED <<stream_objects, now>>
    /\ UNCHANGED nonStreamVars

\* the bytes the stream readFromStream returns delivers: those of the object
\* from startIndex on
BodyFrom(bytes, startIndex) ==
    IF startIndex >= Len(bytes) THEN <<>>
    ELSE SubSeq(bytes, startIndex + 1, Len(bytes))

\* readFromStream reads the object of the stream
StreamRead(c) ==
    /\ sc[c].pc = "read"
    /\ sc' = [sc EXCEPT ![c] =
                StreamDone(sc[c], FALSE, Unset,
                           BodyFrom(StreamBytes(stream_objects,
                                                sc[c].metadata.r2_key),
                                    sc[c].startIndex))]
    /\ UNCHANGED <<streams, stream_objects, now>>
    /\ UNCHANGED nonStreamVars

\* time passes between the steps of the streamer
StreamTick ==
    /\ now < MaxNow
    /\ now' = now + 1
    /\ UNCHANGED streamVars
    /\ UNCHANGED nonStreamVars

StreamInit ==
    /\ streams = {}
    /\ stream_objects = {}
    /\ sc = [c \in StreamCallers |-> IdleStream]

\* calls of the streamer on one stream, any number up to MaxStreamCallers at
\* once
StreamNext ==
    \/ \E c \in StreamCallers, name \in StreamNames, chunk \in Chunks :
          WriteToStream(c, name, chunk)
    \/ \E c \in StreamCallers, name \in StreamNames : CloseStream(c, name)
    \/ \E c \in StreamCallers, name \in StreamNames, i \in 0..1 :
          ReadFromStream(c, name, i)
    \/ \E c \in StreamCallers : StreamInsert(c)
    \/ \E c \in StreamCallers : StreamGet(c)
    \/ \E c \in StreamCallers : StreamPut(c)
    \/ \E c \in StreamCallers : StreamUpdate(c)
    \/ \E c \in StreamCallers : StreamRead(c)
    \/ StreamTick

Init ==
    /\ CoordInit
    /\ QueueInit
    /\ PageInit
    /\ DataInit
    /\ RepoInit
    /\ StreamInit

Next ==
    \/ \E r \in RunIds : Initialize(r)
    \/ \E s \in Statuses : UpdateWorkflowStatus(s)
    \/ \E s \in StepIds : StartStep(s)
    \/ \E s \in StepIds : CompleteStep(s)
    \/ \E s \in StepIds : FailStep(s)
    \/ \E k \in MetaKeys, v \in MetaValues : SetMetadata(k, v)
    \/ StoragePut
    \/ \E i \in 1..Len(calls) : Return(i)
    \/ ColdStart

\* the coordinator set to every status a run can have, and asked whether it
\* accepts steps
AcceptNext ==
    \/ \E r \in RunIds : Initialize(r)
    \/ \E s \in WorkflowRunStatuses : UpdateWorkflowStatus(s)
    \/ CanAcceptSteps
    \/ StoragePut
    \/ \E i \in 1..Len(calls) : Return(i)
    \/ ColdStart

\* the coordinator with puts that may be rejected, and its reads: one step
\* started and completed, the status and one metadata key set
FailNext ==
    \/ \E r \in RunIds : Initialize(r)
    \/ UpdateWorkflowStatus("running")
    \/ StartStep("s1")
    \/ CompleteStep("s1")
    \/ \E k \in MetaKeys, v \in MetaValues : SetMetadata(k, v)
    \/ StoragePut
    \/ \E i \in 1..Len(calls) : Return(i)
    \/ \E r \in RunIds : PutRejected("initialize", r)
    \/ PutRejected("updateWorkflowStatus", "running")
    \/ \E op \in {"startStep", "completeStep"} : PutRejected(op, "s1")
    \/ \E k \in MetaKeys, v \in MetaValues :
          PutRejected("setMetadata", <<k, v>>)
    \/ GetState
    \/ \E k \in MetaKeys : GetMetadata(k)
    \/ CanAcceptSteps

Spec == Init /\ [][Next]_vars

FailSpec == Init /\ [][FailNext]_vars

AcceptSpec == Init /\ [][AcceptNext]_vars

EnqueueSpec == Init /\ [][EnqueueNext]_vars

DeliverySpec == Init /\ [][DeliveryNext]_vars

\* the deliveries with handlers and UPDATEs that settle
DeliveryLiveSpec ==
    /\ DeliverySpec
    /\ WF_vars(\E r \in HandlerResults : ConsumerHandler(r))
    /\ WF_vars(\E ok \in BOOLEAN : ConsumerMark(ok))

PageSpec == Init /\ [][PageNext]_vars

InsertSpec == Init /\ [][InsertNext]_vars

CursorSpec == Init /\ [][CursorNext]_vars

RunSpec == Init /\ [][RunNext]_vars

StepSpec == Init /\ [][StepNext]_vars

RaceSpec == Init /\ [][RaceNext]_vars

TransitionSpec == Init /\ [][TransitionNext]_vars

NotFoundSpec == Init /\ [][NotFoundNext]_vars

OwnerSpec == Init /\ [][OwnerNext]_vars

HookSpec == Init /\ [][HookNext]_vars

EventSpec == Init /\ [][EventNext]_vars

PayloadSpec == Init /\ [][PayloadNext]_vars

BlobSpec == Init /\ [][BlobNext]_vars

StreamSpec == Init /\ [][StreamNext]_vars

ResolveSpec == Init /\ [][ResolveNext]_vars

DataSpec == Init /\ [][DataNext]_vars

(***************************************************************************)
(* Claims about the coordinator, checked under Spec.                       *)
(***************************************************************************)
\* what a WorkflowState or a snapshot holds, whatever its collections are
Content(st) ==
    [runId |-> st.runId, status |-> st.status,
     active |-> st.activeSteps.elems, completed |-> st.completedSteps.elems,
     failed |-> st.failedSteps.elems, metadata |-> st.metadata]

SameContent(a, b) == a # Null /\ b # Null /\ Content(a) = Content(b)

\* the content after one call, applied on its own to content ct
Applied(op, arg, ct) ==
    CASE op = "initialize" -> Content(InitialState(arg))
      [] op = "updateWorkflowStatus" -> [ct EXCEPT !.status = arg]
      [] op = "startStep" -> [ct EXCEPT !.active = @ \cup {arg}]
      [] op = "completeStep" ->
            [ct EXCEPT !.active = @ \ {arg}, !.completed = @ \cup {arg}]
      [] op = "failStep" ->
            [ct EXCEPT !.active = @ \ {arg}, !.failed = @ \cup {arg}]
      [] op = "setMetadata" -> [ct EXCEPT !.metadata[arg[1]] = arg[2]]

\* C1: in every reachable state of a coordinator the sets activeSteps,
\* completedSteps and failedSteps are pairwise disjoint.
C1_PairwiseDisjoint ==
    workflowState # Null =>
        /\ workflowState.activeSteps.elems
             \cap workflowState.completedSteps.elems = {}
        /\ workflowState.activeSteps.elems
             \cap workflowState.failedSteps.elems = {}
        /\ workflowState.completedSteps.elems
             \cap workflowState.failedSteps.elems = {}

\* C2: once initialize has run (first, or again after the in-memory state
\* was lost) startStep, completeStep and failStep succeed: on an initialized
\* coordinator no step call fails.
C2_StepCallsSucceedAfterRecovery ==
    (response.kind = "response" /\ response.op \in StepOps
        /\ workflowState # Null)
    => response.result = "ok"

\* C3: when a mutating call (or the initialize that created the state)
\* returns successfully, its snapshot has been written to durable storage:
\* storage shows the call's effect unless a later put has replaced it, and
\* equals the in-memory state when no later put is outstanding.
C3_WriteThrough ==
    (response.kind = "response" /\ response.result = "ok") =>
        /\ response.op \in MutatingOps => response.w # "none"
        /\ response.w # "none" =>
            /\ response.w \in {"current", "overwritten"}
            /\ response.w = "current" =>
                /\ storage # Null
                /\ Content(storage)
                     = Applied(response.op, response.arg, Content(storage))
                /\ Queued = {} => SameContent(storage, workflowState)

\* a mutating call has returned after its put became durable
C3_Witness ==
    /\ response.kind = "response"
    /\ response.op = "completeStep"
    /\ response.result = "ok"
    /\ response.w = "current"
    /\ response.arg \in storage.completedSteps.elems

\* C4: concurrent mutating calls take effect one after another in the order
\* they were issued: every put carries the previous put's content changed by
\* exactly its own call, the newest put equals the in-memory state, and once
\* no call is in progress durable storage equals the in-memory state.
C4_SingleWriter ==
    /\ \A i \in Queued :
          LET before == IF i - 1 \in Queued THEN calls[i - 1].snap ELSE storage
          IN  IF calls[i].op = "initialize"
              THEN before = Null
                   /\ Content(calls[i].snap) = Applied("initialize", calls[i].arg, Null)
              ELSE before # Null
                   /\ Content(calls[i].snap)
                        = Applied(calls[i].op, calls[i].arg, Content(before))
    /\ workflowState # Null =>
          SameContent(IF Queued = {} THEN storage ELSE calls[Len(calls)].snap,
                      workflowState)

\* two mutating calls are in progress at once, neither put durable yet
C4_Witness ==
    /\ Len(calls) = 2
    /\ calls[1].w = "queued" /\ calls[2].w = "queued"
    /\ calls[1].op = "startStep" /\ calls[2].op = "completeStep"
    /\ calls[1].arg # calls[2].arg

(***************************************************************************)
(* Claims about queue(), checked under EnqueueSpec.                        *)
(***************************************************************************)
Sent(queueName, key) ==
    {m \in broker : m.queueName = queueName /\ m.idempotencyKey = key}

\* what the idempotency claims say of the keys in `keys`
IdempotentFor(keys) ==
    /\ \A r1, r2 \in returned :
          (r1.queueName = r2.queueName /\ r1.key = r2.key /\ r1.key \in keys)
          => r1.messageId = r2.messageId
    /\ \A q \in QueueNames, k \in keys :
          /\ Cardinality(Sent(q, k)) <= 1
          /\ Cardinality({r \in returned :
                            r.queueName = q /\ r.key = k /\ ~r.existing}) <= 1
          /\ Cardinality(Existing(q, k)) <= 1
    /\ \A r1, r2 \in returned :
          (r1.queueName # r2.queueName \/ r1.key # r2.key)
          => r1.messageId # r2.messageId

\* C5 as stated: in a sequence of queue() calls, two calls with the same
\* queue name and idempotency key (any key that was supplied) return the
\* same messageId, the second inserts and sends nothing, and calls with a
\* different key or queue name return a distinct messageId.
C5_SequentialIdempotentAnyKey ==
    sequential => IdempotentFor(IdempotencyKeys \ {NoKey})

\* C5 amended: the same, for every non-empty idempotency key.
C5_SequentialIdempotent ==
    sequential => IdempotentFor({k \in IdempotencyKeys : Truthy(k)})

\* a second call with a key has returned the first call's identifier
C5_Witness ==
    /\ sequential
    /\ \E r1, r2 \in returned :
          /\ Truthy(r1.key) /\ r1.key = r2.key /\ r1.queueName = r2.queueName
          /\ ~r1.existing /\ r2.existing
          /\ r1.messageId = r2.messageId

\* C6: when queue() calls with the same queue name and (non-empty) key run
\* concurrently, at most one row exists and at most one message is sent for
\* the pair, and all callers get the same messageId.
C6_ConcurrentIdempotent ==
    IdempotentFor({k \in IdempotencyKeys : Truthy(k)})

(***************************************************************************)
(* Claims about deliveries, checked under DeliverySpec.                    *)
(***************************************************************************)
RowOf(messageId) == {row \in queue_messages : row.message_id = messageId}

\* C7: the batch consumer acknowledges a message only after its handler
\* returned normally and its processed timestamp was written; after a retry
\* request, a handler exception or a failed UPDATE it signals retry and
\* does not acknowledge.
C7_AckOnlyAfterProcessed ==
    /\ (done.kind = "delivery" /\ done.entry = "batch") =>
          /\ done.signal \in {"ack", "retry"}
          /\ done.signal = "ack" <=> (done.result = "normal" /\ done.marked)
          /\ \A m \in broker : m.messageId = done.messageId =>
                (m.status = "acked") = (done.signal = "ack")
    /\ \A m \in broker : m.status = "acked" =>
          \E row \in RowOf(m.messageId) : row.processed_at # SqlNull

\* the consumer has acknowledged a message
C7_Witness ==
    /\ done.kind = "delivery"
    /\ done.entry = "batch"
    /\ done.signal = "ack"
    /\ \E row \in RowOf(done.messageId) : row.processed_at # SqlNull

\* C8: a delivery whose handler asked for a retry or threw executes no
\* UPDATE of processed_at, in the batch consumer and in the HTTP handler:
\* only a delivery whose handler returned normally reaches the UPDATE.
C8_ProcessedOnlyAfterNormalReturn ==
    /\ (done.kind = "delivery" /\ done.result # "normal") => ~done.marked
    /\ consumer.pc \in HandlerResults => consumer.pc = "normal"
    /\ http.pc \in HandlerResults => http.pc = "normal"

\* a delivery ended with a retry request and its row is still unprocessed
C8_Witness ==
    /\ done.kind = "delivery"
    /\ done.result = "retry"
    /\ \E row \in RowOf(done.messageId) : row.processed_at = SqlNull

\* C9 as stated: at every consumer entry point, a message whose queue name
\* lacks the prefix never reaches the handler and is never marked processed.
C9_PrefixCheckedEverywhere ==
    (done.kind = "delivery" /\ ~StartsWith(done.queueName, QueuePrefix))
    => (~done.invoked /\ ~done.marked)

\* C9 amended: the HTTP queue handler answers 400 to a message whose queue
\* name lacks the prefix, without invoking the handler or marking the
\* message processed.
C9_PrefixCheckedHttp ==
    /\ (done.kind = "delivery" /\ done.entry = "http"
          /\ ~StartsWith(done.queueName, QueuePrefix))
       => (~done.invoked /\ ~done.marked /\ done.signal = "400")
    /\ http.pc # "idle" => StartsWith(http.queueName, QueuePrefix)

\* the HTTP handler has turned away a message of another prefix
C9_Witness ==
    /\ done.kind = "delivery"
    /\ done.entry = "http"
    /\ ~StartsWith(done.queueName, QueuePrefix)
    /\ done.signal = "400"

(***************************************************************************)
(* Claims about the list operations, checked under PageSpec.               *)
(***************************************************************************)
\* the rows a list operation is asked for, by its filter
Wanted(op, params) ==
    CASE op = "runs.list" ->
            {row \in workflow_runs :
               /\ params.workflowName # Unset
                    => row.workflow_name = params.workflowName
               /\ params.status # Unset => row.status = params.status}
      [] op = "steps.list" ->
            {row \in workflow_steps : row.run_id = params.runId}
      [] op = "events.list" ->
            {row \in workflow_events : row.run_id = params.runId}
      [] op = "events.listByCorrelationId" ->
            {row \in workflow_events :
               row.correlation_id = params.correlationId}
      [] op = "hooks.list" ->
            {row \in workflow_hooks :
               params.runId # EmptyString => row.run_id = params.runId}

OwnIdColumn(op) ==
    CASE op = "runs.list" -> "run_id"
      [] op = "steps.list" -> "step_id"
      [] op \in {"events.list", "events.listByCorrelationId"} -> "event_id"
      [] op = "hooks.list" -> "hook_id"

RequestedOrder(op, sortOrder) ==
    IF sortOrder # Unset THEN sortOrder
    ELSE IF op \in {"events.list", "events.listByCorrelationId"} THEN "asc"
    ELSE "desc"

\* the identifiers of the wanted rows, sorted by (created_at, id)
WantedIds(op, params, sortOrder) ==
    LET sorted == OrderBy(Wanted(op, params), OwnIdColumn(op),
                          IF RequestedOrder(op, sortOrder) = "asc"
                            THEN "ASC" ELSE "DESC")
    IN  [i \in 1..Len(sorted) |-> sorted[i][OwnIdColumn(op)]]

\* C10: a traversal with a limit L >= 1 that follows the cursors never
\* fails, and when it ends with a page without cursor (no row having been
\* inserted meanwhile) its pages together are the wanted rows in
\* (created_at, id) order, without duplicates and omissions.
C10_TraversalComplete ==
    /\ trav.state # "failed"
    /\ (trav.state = "complete" /\ trav.limit >= 1 /\ trav.quiet)
          => trav.data = WantedIds(trav.op, trav.params, trav.sortOrder)

Range(seq) == {seq[i] : i \in DOMAIN seq}

NoRepeats(seq) == \A i, j \in DOMAIN seq : seq[i] = seq[j] => i = j

\* C11: when rows were inserted during a traversal, the traversal does not
\* fail, no row is on two of its pages, and once it has ended every row that
\* matched the filter when its first page was fetched is on its pages.
C11_InsertsDoNotDisturb ==
    (trav.state # "none" /\ ~trav.quiet) =>
        /\ trav.state # "failed"
        /\ NoRepeats(trav.data)
        /\ trav.state = "complete"
              => Range(trav.atStart) \subseteq Range(trav.data)

TableOf(op) ==
    CASE op = "runs.list" -> workflow_runs
      [] op = "steps.list" -> workflow_steps
      [] op \in {"events.list", "events.listByCorrelationId"} ->
            workflow_events
      [] op = "hooks.list" -> workflow_hooks

RowWithId(op, id) == CHOOSE row \in TableOf(op) : row[OwnIdColumn(op)] = id

\* C12: the cursor of a response is made from the last row of its page:
\* lastTimestamp is that row's created_at and lastId that row's identifier
\* in the operation's own id column.
C12_CursorFromLastRow ==
    trav.state = "open" =>
        LET decoded == decodeCursor(trav.cursor)
            lastRow == RowWithId(trav.op, trav.page[Len(trav.page)])
        IN  /\ ~decoded.threw
            /\ Member(decoded.value, "lastId") = lastRow[OwnIdColumn(trav.op)]
            /\ Member(decoded.value, "lastTimestamp") = lastRow.created_at

\* the rows after the position of the cursor given, in the requested order
AfterCursor(op, params, sortOrder, given) ==
    IF ~IsSet(given) THEN Wanted(op, params)
    ELSE LET at == decodeCursor(given).value.members
             id == OwnIdColumn(op)
         IN  {row \in Wanted(op, params) :
                IF RequestedOrder(op, sortOrder) = "asc"
                  THEN row.created_at > at.lastTimestamp
                         \/ (row.created_at = at.lastTimestamp
                               /\ row[id] > at.lastId)
                  ELSE row.created_at < at.lastTimestamp
                         \/ (row.created_at = at.lastTimestamp
                               /\ row[id] < at.lastId)}

C14_NoLimitReturnsAll ==
    (trav.state # "none" /\ trav.limit = 0 /\ ~IsSet(trav.given)) =>
        /\ trav.state = "complete"
        /\ trav.data = WantedIds(trav.op, trav.params, trav.sortOrder)
        /\ ~trav.hasMore
        /\ ~IsSet(trav.cursor)

\* a call without limit has returned several rows
C14_Witness ==
    /\ trav.state = "complete"
    /\ trav.limit = 0
    /\ Len(trav.data) >= 2
    /\ ~trav.hasMore

(***************************************************************************)
(* Claims about cursor strings, checked under CursorSpec.                  *)
(***************************************************************************)
\* the encoding of an object {lastId, lastTimestamp}
WellFormedCursor(cursor) ==
    /\ cursor.kind = "base64json"
    /\ cursor.value.type = "object"
    /\ DOMAIN cursor.value.members = {"lastId", "lastTimestamp"}

\* C15: decodeCursor throws on every cursor string that is not the encoding
\* of an object {lastId, lastTimestamp}, and a list call given such a string
\* fails.
C15_MalformedCursorRejected ==
    (trav.state # "none" /\ IsSet(trav.given)
       /\ ~WellFormedCursor(trav.given))
    => (decodeCursor(trav.given).threw /\ trav.state = "failed")

(***************************************************************************)
(* Claims about stored payloads, checked under DataSpec.                   *)
(***************************************************************************)
RECURSIVE SameJson(_, _)
SameJson(a, b) ==
    /\ a.t = b.t
    /\ IF a.t = "array"
         THEN /\ Len(a.v) = Len(b.v)
              /\ \A i \in 1..Len(a.v) : SameJson(a.v[i], b.v[i])
         ELSE a.v = b.v

ObjectPresent(reference) ==
    reference.type = "r2" => BucketGet(bucket, reference.data) # {}

\* C16: retrieveData of the reference storeData returned gives back the
\* payload stored, whether the reference is inline or names an object of the
\* bucket, under every threshold; retrieveData takes no threshold.
C16_RoundTrip ==
    (retrieved.state = "retrieved" /\ ObjectPresent(stored.reference))
    => (~retrieved.threw /\ SameJson(retrieved.value, stored.data))

\* a nested array has come back from the bucket
C16_Witness ==
    /\ retrieved.state = "retrieved"
    /\ stored.reference.type = "r2"
    /\ stored.data.t = "array"
    /\ Len(stored.data.v) = 2
    /\ ~retrieved.threw
    /\ SameJson(retrieved.value, stored.data)

\* C17: storeData returns an inline reference exactly when the byte length
\* of the serialized payload is at most the threshold, and writes an object
\* to the bucket exactly when the reference is not inline.
C17_InlineIffBytesWithinThreshold ==
    stored.state = "stored" =>
        /\ (stored.reference.type = "inline")
              = (ByteLength(stored.jsonData) <= stored.threshold)
        /\ stored.put = (stored.reference.type = "r2")

(***************************************************************************)
(* Claims about payloads of runs and steps, checked under ResolveSpec.     *)
(***************************************************************************)
\* the row refers to an input or output object that is not in the bucket
MissingBlob(row) ==
    \E reference \in {createDataReference(row.input_type, row.input_data),
                       createDataReference(row.output_type, row.output_data)} :
       reference.type = "r2" /\ BucketGet(bucket, reference.data) = {}

ResolvesAll(resolveData) == resolveData \in {Unset, "all"}

\* C18: retrieveData of an r2 reference whose object is not in the bucket
\* throws; a get (also the one that ends update and cancel) of a run or a
\* step with resolveData all whose input or output object is missing
\* throws, and so does a list call that meets such a row.
C18_MissingBlobFails ==
    /\ \A key \in RunKeys :
          BucketGet(bucket, key) = {}
             => retrieveData(bucket, R2Reference(key)).threw
    /\ (/\ reply.op \in {"runs.get", "runs.update", "runs.cancel"}
        /\ ResolvesAll(reply.resolveData)
        /\ \E row \in workflow_runs :
              row.run_id = reply.id /\ MissingBlob(row))
          => reply.threw
    /\ (/\ reply.op = "steps.get"
        /\ ResolvesAll(reply.resolveData)
        /\ \E row \in workflow_steps :
              row.step_id = reply.id /\ MissingBlob(row))
          => reply.threw
    /\ (/\ trav.state # "none"
        /\ trav.op \in {"runs.list", "steps.list"}
        /\ ResolvesAll(trav.params.resolveData)
        /\ \E row \in Wanted(trav.op, trav.params) : MissingBlob(row))
          => trav.state = "failed"

\* a run whose input object is gone was read with resolveData all, and the
\* read failed
C18_Witness ==
    /\ reply.op = "runs.get"
    /\ ResolvesAll(reply.resolveData)
    /\ reply.threw
    /\ \E row \in workflow_runs :
          /\ row.run_id = reply.id
          /\ row.input_type = "r2"
          /\ BucketGet(bucket, row.input_data) = {}

(***************************************************************************)
(* Claims about the timestamps of a run, checked under RunSpec.            *)
(***************************************************************************)
\* caller c's update writes in this step
Finishing(c) == upd[c].pc = "write" /\ upd'[c].pc = "idle"

\* the row of the same run after the step
SameRun(row, next) == next.run_id = row.run_id

\* C19: as long as no two update calls overlapped, a run is created without
\* started_at; started_at stays null except in the write of an update,
\* resume included, that sets status running, which stamps it with the time
\* that update took; and once set it never changes, whatever update, cancel,
\* pause or resume follows.
C19_StartedAtSetOnce ==
    [][serial' =>
         /\ \A next \in workflow_runs' :
              (\A row \in workflow_runs : ~SameRun(row, next))
                 => next.started_at = NullTime
         /\ \A row \in workflow_runs, next \in workflow_runs' :
              SameRun(row, next) =>
                /\ row.started_at # NullTime
                      => next.started_at = row.started_at
                /\ (row.started_at = NullTime /\ next.started_at # NullTime)
                      => \E c \in Updaters :
                            /\ Finishing(c)
                            /\ upd[c].id = row.run_id
                            /\ upd[c].data.status = "running"
                            /\ next.started_at = upd[c].now
                /\ (/\ row.started_at = NullTime
                    /\ \E c \in Updaters :
                          /\ Finishing(c)
                          /\ upd[c].id = row.run_id
                          /\ upd[c].data.status = "running")
                      => next.started_at # NullTime]_vars

\* a run started earlier was updated to running again later, and kept its
\* started_at
C19_Witness ==
    /\ serial
    /\ \E row \in workflow_runs :
          /\ row.status = "running"
          /\ row.started_at # NullTime
          /\ row.updated_at > row.started_at
          /\ reply.op \in {"runs.update", "runs.resume"}

Terminal == {"completed", "failed", "cancelled"}

\* C20: as long as no two update calls overlapped, a run is created without
\* completed_at; completed_at stays null except in the write of an update,
\* cancel included, that sets status completed, failed or cancelled, which
\* stamps it with the time that update took; and once set it never changes,
\* also when the run leaves the terminal status and enters one again, the
\* same or another.
C20_CompletedAtSetOnce ==
    [][serial' =>
         /\ \A next \in workflow_runs' :
              (\A row \in workflow_runs : ~SameRun(row, next))
                 => next.completed_at = NullTime
         /\ \A row \in workflow_runs, next \in workflow_runs' :
              SameRun(row, next) =>
                /\ row.completed_at # NullTime
                      => next.completed_at = row.completed_at
                /\ (/\ row.completed_at = NullTime
                    /\ next.completed_at # NullTime)
                      => \E c \in Updaters :
                            /\ Finishing(c)
                            /\ upd[c].id = row.run_id
                            /\ upd[c].data.status \in Terminal
                            /\ next.completed_at = upd[c].now
                /\ (/\ row.completed_at = NullTime
                    /\ \E c \in Updaters :
                          /\ Finishing(c)
                          /\ upd[c].id = row.run_id
                          /\ upd[c].data.status \in Terminal)
                      => next.completed_at # NullTime]_vars

\* a run completed earlier was cancelled later, and kept its completed_at
C20_Witness ==
    /\ serial
    /\ \E row \in workflow_runs :
          /\ row.status = "cancelled"
          /\ row.completed_at # NullTime
          /\ row.updated_at > row.completed_at
          /\ reply.op = "runs.cancel"

(***************************************************************************)
(* Claims about the timestamps of a step, checked under StepSpec.          *)
(***************************************************************************)
\* caller c's update of a step writes in this step
FinishingStep(c) == upd[c].pc = "writeStep" /\ upd'[c].pc = "idle"

\* C21: as long as no two update calls overlapped, the write of an update
\* that sets a step's status to running stamps started_at when it was null,
\* the write of an update that sets it to completed, failed or cancelled
\* stamps completed_at when it was null, and neither changes once set.
C21_StepStampsSetOnce ==
    [][serial' =>
         \A row \in workflow_steps, next \in workflow_steps' :
            next.step_id = row.step_id =>
              /\ row.started_at # NullTime
                    => next.started_at = row.started_at
              /\ row.completed_at # NullTime
                    => next.completed_at = row.completed_at
              /\ \A c \in Updaters :
                    (FinishingStep(c) /\ upd[c].id = row.step_id) =>
                      /\ (/\ upd[c].data.status = "running"
                          /\ row.started_at = NullTime)
                            => next.started_at = upd[c].now
                      /\ (/\ upd[c].data.status \in Terminal
                          /\ row.completed_at = NullTime)
                            => next.completed_at = upd[c].now]_vars

(***************************************************************************)
(* Claims about overlapping updates, checked under RaceSpec.               *)
(***************************************************************************)
\* C22: whether or not update calls overlap, the started_at and the
\* completed_at of a run or a step, once not null, are never replaced by a
\* different value.
C22_StampsKeptUnderConcurrency ==
    [][/\ \A row \in workflow_runs, next \in workflow_runs' :
            SameRun(row, next) =>
              /\ row.started_at # NullTime
                    => next.started_at = row.started_at
              /\ row.completed_at # NullTime
                    => next.completed_at = row.completed_at
       /\ \A row \in workflow_steps, next \in workflow_steps' :
            next.step_id = row.step_id =>
              /\ row.started_at # NullTime
                    => next.started_at = row.started_at
              /\ row.completed_at # NullTime
                    => next.completed_at = row.completed_at]_vars

(***************************************************************************)
(* Claims about create, checked under ResolveSpec.                         *)
(***************************************************************************)
\* C23: the row a create call inserts for a run has status pending and
\* neither started_at nor completed_at; the row it inserts for a step has
\* status pending, attempt 1 and neither started_at nor completed_at.
C23_CreatedPending ==
    [][/\ \A next \in workflow_runs' :
            (\A row \in workflow_runs : ~SameRun(row, next)) =>
               /\ next.status = "pending"
               /\ next.started_at = NullTime
               /\ next.completed_at = NullTime
       /\ \A next \in workflow_steps' :
            (\A row \in workflow_steps : row.step_id # next.step_id) =>
               /\ next.status = "pending"
               /\ next.attempt = 1
               /\ next.started_at = NullTime
               /\ next.completed_at = NullTime]_vars

\* a run and a step have been created and not updated since
C23_Witness ==
    /\ \E row \in workflow_runs :
          row.status = "pending" /\ row.started_at = NullTime
    /\ \E row \in workflow_steps :
          row.status = "pending" /\ row.attempt = 1
    /\ reply = NoReply

(***************************************************************************)
(* Claims about status changes, checked under TransitionSpec.              *)
(***************************************************************************)
\* C24: an update of an existing run or step to a status its table admits,
\* whatever the status it has, does not fail, and after its write the row
\* and the run or step returned have the status asked for.
C24_NoTransitionGraph ==
    [][/\ \A row \in workflow_runs :
            (reply'.op = "runs.update" /\ reply'.id = row.run_id)
               => ~reply'.threw
       /\ \A row \in workflow_steps :
            (reply'.op = "steps.update" /\ reply'.id = row.step_id)
               => ~reply'.threw
       /\ \A c \in Updaters :
            (Finishing(c) /\ upd[c].data.status # Unset) =>
               /\ reply'.item.status = upd[c].data.status
               /\ \A next \in workflow_runs' :
                     next.run_id = upd[c].id
                        => next.status = upd[c].data.status
       /\ \A c \in Updaters :
            (FinishingStep(c) /\ upd[c].data.status # Unset) =>
               /\ reply'.item.status = upd[c].data.status
               /\ \A next \in workflow_steps' :
                     next.step_id = upd[c].id
                        => next.status = upd[c].data.status]_vars

\* a run that had completed was set to running, and a step that had
\* completed is pending again
C24_Witness ==
    /\ reply.op = "runs.update"
    /\ ~reply.threw
    /\ reply.item.status = "running"
    /\ reply.item.completedAt # NullTime
    /\ \E row \in workflow_steps :
          row.status = "pending" /\ row.completed_at # NullTime

(***************************************************************************)
(* Claims about missing identifiers, checked under NotFoundSpec.           *)
(***************************************************************************)
RunCalls ==
    {"runs.get", "runs.update", "runs.cancel", "runs.pause", "runs.resume"}

StepCalls == {"steps.get", "steps.update"}

\* the call answered in this step addressed a run, step or hook that the
\* tables do not hold
AnsweredMissing ==
    \/ /\ reply'.op \in RunCalls
       /\ \A row \in workflow_runs : row.run_id # reply'.id
    \/ /\ reply'.op \in StepCalls
       /\ \A row \in workflow_steps : row.step_id # reply'.id
    \/ /\ reply'.op \in {"hooks.get", "hooks.dispose"}
       /\ \A row \in workflow_hooks : row.hook_id # reply'.id
    \/ /\ reply'.op = "hooks.getByToken"
       /\ \A row \in workflow_hooks : row.token # reply'.id

NotFoundErrors ==
    {"Workflow run not found", "Step not found", "Hook not found",
     "Hook not found for token"}

\* C25: a get, update, cancel, pause or resume of a run, a get or update of a
\* step, and a get, getByToken or dispose of a hook that address an
\* identifier the tables do not hold fail with a not-found error and change
\* neither the tables nor the bucket.
C25_MissingIdFailsCleanly ==
    [][AnsweredMissing =>
         /\ reply'.threw
         /\ reply'.error \in NotFoundErrors
         /\ UNCHANGED <<workflow_runs, workflow_steps, workflow_events,
                        workflow_hooks, bucket>>]_vars

\* an update was called on a run that does not exist while a step exists,
\* it failed, and the bucket is still empty
C25_Witness ==
    /\ reply.op = "runs.update"
    /\ reply.threw
    /\ reply.error = "Workflow run not found"
    /\ \A row \in workflow_runs : row.run_id # reply.id
    /\ bucket = {}
    /\ workflow_steps # {}

(***************************************************************************)
(* Claims about the run a step belongs to, checked under OwnerSpec.        *)
(***************************************************************************)
\* the call of the step storage answered in this step named a run id that
\* is not the one of the step it addressed
AnsweredOtherRun ==
    /\ reply'.op \in StepCalls
    /\ \E row \in workflow_steps :
          row.step_id = reply'.id /\ row.run_id # reply'.runId

OwnershipMismatch ==
    /\ reply'.threw
    /\ reply'.error = "Step does not belong to run"
    /\ UNCHANGED <<workflow_steps, bucket>>

\* C26 as stated: a get or update of a step under any run id other than the
\* one of its run fails, and the step row stays as it is.
C26_OtherRunRejected ==
    [][AnsweredOtherRun => OwnershipMismatch]_vars

\* C26: a get or update of a step under a run id that is not empty and is
\* not the one of its run fails, and the step row and the bucket stay as
\* they are.
C26_OtherNonEmptyRunRejected ==
    [][(AnsweredOtherRun /\ reply'.runId # EmptyString)
          => OwnershipMismatch]_vars

\* an update of an existing step was called under the id of another run and
\* failed for that reason
C26_Witness ==
    /\ reply.op = "steps.update"
    /\ reply.threw
    /\ reply.error = "Step does not belong to run"
    /\ reply.runId # EmptyString
    /\ \E row \in workflow_steps :
          row.step_id = reply.id /\ row.run_id # reply.runId

(***************************************************************************)
(* Further claims about the coordinator, checked under Spec.               *)
(***************************************************************************)
\* a call other than initialize is answered in this step by a coordinator
\* without in-memory state
AnsweredUninitialized ==
    /\ workflowState = Null
    /\ response'.kind = "response"
    /\ response'.op \in MutatingOps \ {"initialize"}

\* C27: updateWorkflowStatus, startStep, completeStep, failStep and
\* setMetadata called on a coordinator that has no state in memory fail with
\* NotInitialized, issue no put, leave durable storage as it is, and leave
\* the coordinator without state.
C27_NotInitialized ==
    [][AnsweredUninitialized =>
         /\ response'.result = "NotInitialized"
         /\ response'.w = "none"
         /\ workflowState' = Null
         /\ UNCHANGED <<storage, calls>>]_vars

\* a step was started on a coordinator that never was initialized, and the
\* call failed
C27_Witness ==
    /\ response.kind = "response"
    /\ response.op = "startStep"
    /\ response.result = "NotInitialized"
    /\ workflowState = Null
    /\ storage = Null

\* the request that entered its persist in this step, if one did
Entered(op) ==
    /\ Len(calls') = Len(calls) + 1
    /\ calls'[Len(calls')].op = op

\* C28: on a coordinator with state in memory startStep, completeStep and
\* failStep never fail, whatever the step; after startStep(s) s is active,
\* after completeStep(s) s is completed and not active, after failStep(s) s
\* is failed and not active; and the same call once more changes nothing.
C28_StepOpsTotalIdempotent ==
    [][/\ (/\ workflowState # Null
           /\ response'.kind = "response"
           /\ response'.op \in StepOps)
             => response'.result = "ok"
       /\ \A s \in StepIds :
            /\ (Entered("startStep") /\ calls'[Len(calls')].arg = s) =>
                  /\ s \in workflowState'.activeSteps.elems
                  /\ StartStepEffect(workflowState', s) = workflowState'
            /\ (Entered("completeStep") /\ calls'[Len(calls')].arg = s) =>
                  /\ s \in workflowState'.completedSteps.elems
                  /\ s \notin workflowState'.activeSteps.elems
                  /\ CompleteStepEffect(workflowState', s) = workflowState'
            /\ (Entered("failStep") /\ calls'[Len(calls')].arg = s) =>
                  /\ s \in workflowState'.failedSteps.elems
                  /\ s \notin workflowState'.activeSteps.elems
                  /\ FailStepEffect(workflowState', s) = workflowState'
      ]_vars

\* C29: the initialize that finds nothing stored creates the state with
\* status pending, empty step sets and empty metadata, and has it stored
\* when it returns; an initialize on a coordinator that has state in memory
\* leaves the state in memory and the stored state as they are.
C29_InitializeIdempotent ==
    [][/\ Entered("initialize") =>
            /\ StorageGet = Null
            /\ workflowState' = InitialState(calls'[Len(calls')].arg)
       /\ (/\ response'.kind = "response"
           /\ response'.op = "initialize"
           /\ response'.w # "none")
             => /\ response'.w \in {"current", "overwritten"}
                /\ storage' # Null
       /\ (/\ response'.kind = "response"
           /\ response'.op = "initialize"
           /\ response'.w = "none"
           /\ workflowState # Null)
             => /\ workflowState' = workflowState
                /\ storage' = storage]_vars

(***************************************************************************)
(* Claims about canAcceptSteps, checked under AcceptSpec.                  *)
(***************************************************************************)
\* C30: canAcceptSteps answers true exactly when the coordinator has state
\* whose status is pending or running.
C30_CanAcceptSteps ==
    (response.kind = "response" /\ response.op = "canAcceptSteps") =>
        (response.result = "true"
           <=> /\ workflowState # Null
               /\ workflowState.status \in {"pending", "running"})

\* a paused coordinator was asked and refused
C30_Witness ==
    /\ response.kind = "response"
    /\ response.op = "canAcceptSteps"
    /\ response.result = "false"
    /\ workflowState # Null
    /\ workflowState.status = "paused"

(***************************************************************************)
(* Claims about hooks, checked under HookSpec.                             *)
(***************************************************************************)
\* the hooks an unpaginated list returns, for all runs
ListedHooks ==
    DataIds("hooks.list",
            Result("hooks.list", NoParams,
                   [limit |-> 0, sortOrder |-> "desc", cursor |-> NoCursor]))

\* C31: a dispose of a hook that exists returns the hook as it was and
\* deletes its row, so that afterwards get of its id and getByToken of its
\* token fail with a not-found error and the list does not hold it; a
\* dispose of a hook that does not exist (any more) fails with a not-found
\* error.
C31_DisposeDeletes ==
    [][reply'.op = "hooks.dispose" =>
         /\ \A row \in workflow_hooks :
              row.hook_id = reply'.id =>
                /\ ~reply'.threw
                /\ reply'.item = rowToHook(row)
                /\ \A next \in workflow_hooks' : next.hook_id # row.hook_id
                /\ getHook(workflow_hooks, row.hook_id)'.threw
                /\ getHook(workflow_hooks, row.hook_id)'.error
                      = "Hook not found"
                /\ getHookByToken(workflow_hooks, row.token)'.threw
                /\ \A i \in DOMAIN ListedHooks' :
                      ListedHooks'[i] # row.hook_id
         /\ (\A row \in workflow_hooks : row.hook_id # reply'.id) =>
                /\ reply'.threw
                /\ reply'.error = "Hook not found"]_vars

\* a hook was disposed while another hook remains
C31_Witness ==
    /\ reply.op = "hooks.dispose"
    /\ ~reply.threw
    /\ workflow_hooks # {}
    /\ \A row \in workflow_hooks : row.hook_id # reply.id

(***************************************************************************)
(* Claims about the events, checked under EventSpec.                       *)
(***************************************************************************)
\* what an unpaginated events.list of the run returns
ListedEvents(runId) ==
    Result("events.list", [NoParams EXCEPT !.runId = runId],
           [limit |-> 0, sortOrder |-> Unset, cursor |-> NoCursor])

\* what the caller of the list is given about an event
Listed(item) ==
    [eventId |-> item.eventId, runId |-> item.runId,
     eventType |-> item.eventType, correlationId |-> item.correlationId,
     createdAt |-> item.createdAt]

\* the same of the row of an event
Created(row) ==
    [eventId |-> row.event_id, runId |-> row.run_id,
     eventType |-> row.event_type, correlationId |-> row.correlation_id,
     createdAt |-> row.created_at]

\* every event of the table is in the unpaginated list of its run, with its
\* run, type, correlation id and creation time
EventsListed ==
    \A runId \in Ids :
       LET result == ListedEvents(runId)
           data == result.data
           listed == {Listed(data[i]) : i \in 1..Len(data)}
       IN  /\ ~result.threw
           /\ \A row \in workflow_events :
                 row.run_id = runId => Created(row) \in listed

\* no step changes or deletes an event row, and the event create returns is
\* the row it inserted
EventsKept ==
    /\ workflow_events \subseteq workflow_events'
    /\ reply'.op = "events.create" =>
         /\ ~reply'.threw
         /\ \E row \in workflow_events' \ workflow_events :
               Created(row) = Listed(reply'.item)

\* C32: events are append-only: no operation of the repository changes or
\* deletes an event row, the event create returns is the row it inserted,
\* and an unpaginated list of the run of an event contains the event with
\* its run, type, correlation id and creation time in every later state
C32_EventsAppendOnly == []EventsListed /\ [][EventsKept]_vars

\* an event created earlier, with data in the bucket, is there after a hook
\* of its run was disposed
C32_Witness ==
    /\ reply.op = "hooks.dispose"
    /\ ~reply.threw
    /\ \E row \in workflow_events :
          /\ row.event_data_type = "r2"
          /\ row.created_at < now
          /\ Created(row) \in {Listed(ListedEvents(row.run_id).data[i]) :
                                   i \in 1..Len(ListedEvents(row.run_id).data)}

(***************************************************************************)
(* Claims about the payloads of runs and steps, checked under PayloadSpec. *)
(***************************************************************************)
\* the payloads a read with resolveData 'all' returns for the rows of a
\* table, by the identifier of the row
Resolved(objects, rows, isStep) ==
    {[id |-> IF isStep THEN row.step_id ELSE row.run_id,
      input |-> ResolveRow(objects, row, "all").input,
      output |-> ResolveRow(objects, row, "all").output] : row \in rows}

\* what 'all' returns for a row there is stays as it is: the input in every
\* step, the output in every step but the write of an update
PayloadsKept(before, after, written) ==
    \A old \in before : \A new \in after :
       old.id = new.id =>
          /\ new.input = old.input
          /\ ~written => new.output = old.output

\* C33: a read with resolveData 'none' returns the empty input and no
\* output; a read with 'all' returns the input stored when the run or step
\* was created and the output stored by the last update that carried one
C33_PayloadsResolved ==
    [][/\ (/\ reply'.op \in {"runs.get", "steps.get"}
           /\ ~reply'.threw
           /\ reply'.resolveData = "none")
          => /\ reply'.item.input = EmptyInput
             /\ reply'.item.output = JsonUndefined
       /\ (/\ reply'.op = "steps.get"
           /\ ~reply'.threw
           /\ reply'.resolveData \in {Unset, "all"})
          => \E row \in workflow_steps :
                /\ reply'.item.input = ResolveRow(bucket, row, "all").input
                /\ reply'.item.output = ResolveRow(bucket, row, "all").output
       /\ PayloadsKept(Resolved(bucket, workflow_runs, FALSE),
                       Resolved(bucket, workflow_runs, FALSE)',
                       upd[1].pc = "write" /\ upd'[1].pc = "idle")
       /\ PayloadsKept(Resolved(bucket, workflow_steps, TRUE),
                       Resolved(bucket, workflow_steps, TRUE)',
                       upd[1].pc = "writeStep" /\ upd'[1].pc = "idle")]_vars

(***************************************************************************)
(* Claims about the cursor predicate, checked under CursorSpec.            *)
(***************************************************************************)
\* the identifiers of the rows after the cursor, sorted by (created_at, id)
\* in the requested direction
AfterCursorIds(op, params, sortOrder, given) ==
    LET sorted == OrderBy(AfterCursor(op, params, sortOrder, given),
                          OwnIdColumn(op),
                          IF RequestedOrder(op, sortOrder) = "asc"
                            THEN "ASC" ELSE "DESC")
    IN  [i \in 1..Len(sorted) |-> sorted[i][OwnIdColumn(op)]]

\* C34: a list call given the cursor of a position selects exactly the rows
\* strictly after the position in the requested order (created_at below the
\* cursor's, or equal with the id below, for desc; above for asc) and
\* returns them sorted by (created_at, id) in that direction
C34_CursorSelectsAfter ==
    (trav.state # "none" /\ IsSet(trav.given) /\ WellFormedCursor(trav.given))
    => LET after == AfterCursorIds(trav.op, trav.params, trav.sortOrder,
                                   trav.given)
       IN  /\ trav.state # "failed"
           /\ trav.page = IF trav.limit # 0 /\ Len(after) > trav.limit
                            THEN SubSeq(after, 1, trav.limit) ELSE after

(***************************************************************************)
(* Claims about the streamer, checked under StreamSpec.                    *)
(***************************************************************************)
\* the content of a stream
StreamContent(name) == StreamBytes(stream_objects, getStreamKey(name))

\* the call of the caller returns in this step
Returns(c, op) == InCall(sc[c]) /\ sc'[c].pc = "done" /\ sc'[c].op = op

\* C35: writeToStream reads the object and writes it back with the chunk
\* appended, in two steps: a write that no other call overlaps appends its
\* chunk to the content, and the content changes in no other step than the
\* write-back of a writeToStream call. (Two writes that overlap can both
\* succeed and leave one chunk: the witness.)
C35_SequentialWritesAppend ==
    [][\A name \in StreamNames :
         /\ \A c \in StreamCallers :
               (/\ Returns(c, "writeToStream")
                /\ sc[c].name = name
                /\ ~sc'[c].threw
                /\ sc[c].alone)
               => StreamContent(name)' = StreamContent(name) \o sc[c].chunk
         /\ StreamContent(name)' # StreamContent(name)
               => \E c \in StreamCallers :
                     /\ Returns(c, "writeToStream")
                     /\ sc[c].pc = "put"
                     /\ sc[c].name = name]_vars

\* two overlapping writes to one stream have both succeeded, and the stream
\* holds the chunk of one of them only
C35_Witness ==
    /\ \A c \in StreamCallers :
          /\ sc[c].pc = "done"
          /\ sc[c].op = "writeToStream"
          /\ sc[c].name = "s1"
          /\ ~sc[c].threw
          /\ ~sc[c].alone
    /\ sc[1].chunk # sc[2].chunk
    /\ StreamContent("s1") = sc[2].chunk

\* a call made on a closed stream: a write has failed, a close has returned,
\* and a read goes on to read the object
ClosedCallsEnd ==
    \A c \in StreamCallers :
       (sc[c].pc # "idle" /\ sc[c].wasClosed) =>
          CASE sc[c].op = "writeToStream" ->
                 sc[c].pc = "done" /\ sc[c].threw
            [] sc[c].op = "closeStream" ->
                 sc[c].pc = "done" /\ ~sc[c].threw
            [] sc[c].op = "readFromStream" ->
                 \/ sc[c].pc = "read"
                 \/ sc[c].pc = "done" /\ ~sc[c].threw

\* a closeStream call that returns leaves the stream closed; a closed stream
\* stays closed with its closed_at, but for the UPDATE of a closeStream call
\* made before the stream was closed; a call made on a closed stream changes
\* neither the row nor the content; a read of a closed stream returns the
\* content from its start index on
ClosedKept ==
    /\ \A c \in StreamCallers :
          /\ (Returns(c, "closeStream") /\ ~sc'[c].threw)
                => \E row \in streams' :
                      row.stream_name = sc[c].name /\ row.is_closed = 1
          /\ (~InCall(sc[c]) /\ sc'[c] # sc[c] /\ sc'[c].wasClosed)
                => streams' = streams /\ stream_objects' = stream_objects
          /\ (Returns(c, "readFromStream") /\ sc[c].wasClosed)
                => /\ ~sc'[c].threw
                   /\ sc'[c].body = BodyFrom(StreamContent(sc[c].name),
                                             sc[c].startIndex)
    /\ \A row \in streams :
          row.is_closed = 1 =>
             \/ row \in streams'
             \/ \E c \in StreamCallers :
                   /\ sc[c].pc = "update"
                   /\ ~sc[c].wasClosed
                   /\ Returns(c, "closeStream")
                   /\ Closed(row, now) \in streams'

\* C36: a writeToStream call made after a closeStream call on the stream has
\* returned fails and leaves the content as it is; a closeStream call on a
\* closed stream returns without changing the row, closed_at included; a
\* read of a closed stream still returns the content
C36_ClosedStreamRejectsWrites == []ClosedCallsEnd /\ [][ClosedKept]_vars

\* on a stream closed earlier, with content, a write has failed and a read
\* has returned the content, and the row has the closed_at of the first close
C36_Witness ==
    /\ sc[1].pc = "done" /\ sc[1].op = "writeToStream"
    /\ sc[1].wasClosed /\ sc[1].threw
    /\ sc[2].pc = "done" /\ sc[2].op = "readFromStream"
    /\ sc[2].wasClosed /\ sc[2].startIndex = 0
    /\ Len(sc[2].body) = 2
    /\ sc[2].body = StreamContent("s1")
    /\ \E row \in streams : row.is_closed = 1 /\ row.closed_at < now

(***************************************************************************)
(* Claims about failed sends, checked under EnqueueSpec.                   *)
(***************************************************************************)
\* C37: once the queue() calls in progress have ended, every message id a
\* call has returned is the id of a message handed to the broker; in
\* particular, after a send that failed behind its INSERT, no later call
\* with the same queue name and key returns the id of the message that was
\* never sent
C37_ReturnedIdsWereSent ==
    (\A e \in Enqueuers : enq[e].pc = "idle")
    => \A r \in returned : \E m \in broker : m.messageId = r.messageId

(***************************************************************************)
(* Claims about rejected puts, checked under FailSpec.                     *)
(***************************************************************************)
\* C38: whenever no operation of the coordinator is in progress, the state
\* in memory has the content of the durable snapshot, so that a mutating
\* call whose persist failed has left the state in memory as it was and no
\* read (getState, canAcceptSteps, getMetadata) shows a change that was not
\* persisted
C38_MemoryIsDurable ==
    (calls = <<>> /\ workflowState # Null)
    => /\ SameContent(storage, workflowState)
       /\ (response.kind = "response" /\ response.op = "getMetadata")
             => response.result = storage.metadata[response.arg]
       /\ (response.kind = "response" /\ response.op = "canAcceptSteps")
             => response.result = canAcceptSteps(storage)

(***************************************************************************)
(* Claims about the batch consumer's loop, checked under DeliveryLiveSpec. *)
(***************************************************************************)
\* the consumer leaves the message it is at: for the next one, or returning
\* after the last
LeavesMessage ==
    /\ consumer.pc # "idle"
    /\ IF consumer.i < Len(consumer.batch)
         THEN /\ consumer'.pc = "handler"
              /\ consumer'.i = consumer.i + 1
              /\ consumer'.batch = consumer.batch
         ELSE consumer' = IdleConsumer

\* a step tells the broker ack() or retry() for a message of the batch
\* exactly when the consumer leaves that message, which is the one it is at;
\* in every other step the consumer stays at its message
SignalsInOrder ==
    /\ (done'.kind = "delivery" /\ done'.entry = "batch")
          => /\ LeavesMessage
             /\ done'.messageId = consumer.batch[consumer.i].messageId
             /\ done'.signal \in {"ack", "retry"}
    /\ (consumer.pc # "idle" /\ consumer' # consumer)
          => \/ /\ LeavesMessage
                /\ done'.kind = "delivery"
                /\ done'.entry = "batch"
             \/ /\ consumer'.i = consumer.i
                /\ consumer'.batch = consumer.batch
                /\ consumer'.pc # "idle"
                /\ done'.kind # "delivery"

\* C39: the batch consumer tells the broker exactly one of ack() and retry()
\* for every message of its batch, once, in the order of the batch, goes on
\* to the next message after a handler that threw or asked for a retry, and
\* returns once the last message is dealt with
C39_BatchHandledInOrder ==
    /\ [][SignalsInOrder]_vars
    /\ \A n \in 1..MaxBatch :
          (consumer.pc # "idle" /\ Len(consumer.batch) = n /\ consumer.i = 1)
             ~> (done.kind = "delivery" /\ done.entry = "batch"
                   /\ consumer.pc = "idle")

\* after a handler that threw on the first message of a batch of two, the
\* second message has been acknowledged and the consumer has returned
C39_Witness ==
    /\ consumer.pc = "idle"
    /\ done.kind = "delivery"
    /\ done.entry = "batch"
    /\ done.signal = "ack"
    /\ \E m \in broker : m.status = "ready" /\ m.messageId # done.messageId
    /\ \E m \in broker : m.status = "acked" /\ m.messageId = done.messageId

(***************************************************************************)
(* Claims about the objects rows refer to, checked under BlobSpec.         *)
(***************************************************************************)
\* a reference held in two columns of a row names an object of the bucket
\* when it is external
RefersToObject(type, data) ==
    type = "r2" => BucketGet(bucket, data) # {}

\* C40: every run, step and event row whose input, output or event data is
\* held externally refers to an object that is in the bucket: create and
\* update write the object before the row, and no operation of the
\* repository deletes an object
C40_NoDanglingReferences ==
    /\ \A row \in workflow_runs \cup workflow_steps :
          /\ RefersToObject(row.input_type, row.input_data)
          /\ RefersToObject(row.output_type, row.output_data)
    /\ \A row \in workflow_events :
          RefersToObject(row.event_data_type, row.event_data)

\* a run with an external output and an event with external data
C40_Witness ==
    /\ \E row \in workflow_runs :
          /\ row.output_type = "r2"
          /\ BucketGet(bucket, row.output_data) # {}
    /\ \E row \in workflow_events :
          /\ row.event_data_type = "r2"
          /\ BucketGet(bucket, row.event_data) # {}

====
